---- MODULE Spec2Model ----
(***************************************************************************)
(* A model of the dispatch engine of @pirxpilot/router: the Router's       *)
(* handle/next loop (index.js), Route.prototype.dispatch (lib/route.js)    *)
(* and Layer (lib/layer.js, lib/matcher.js).                               *)
(*                                                                         *)
(* JavaScript strings are sequences of one-character strings, objects are  *)
(* sequences of <<key, value>> pairs, and `undefined` in a string or       *)
(* object slot is the sequence Undefined.  Values handed to a continuation *)
(* are strings: "undefined" (no argument), "null" (a falsy value that is   *)
(* not undefined), the control signals "route" and "router", and errors.   *)
(***************************************************************************)
EXTENDS Integers, Sequences, FiniteSets, TLC

\* ------------------------------------------------------------------------
\* Bounds of the model
\* ------------------------------------------------------------------------

\* Layer objects created by use(), route() and the verbs of the Routes, in
\* total
MaxLayers == 4

\* times the handlers of one dispatch assign request.url or request.method
MaxRewrites == 1

\* callbacks registered for one parameter name by router.param()
MaxParamCallbacks == 2

\* layers of the Router and of its Routes where registration calls are
\* made with any arguments
MaxRegistered == 2

\* ------------------------------------------------------------------------
\* Values
\* ------------------------------------------------------------------------

\* `undefined` in a slot that otherwise holds a string or an object
Undefined == <<"undefined">>

\* `undefined` in a slot that otherwise holds an object
UndefinedObject == << <<"undefined", "undefined">> >>

\* `undefined` as the argument of a continuation
Undef == "undefined"

\* a falsy argument other than undefined (null, 0, '', false)
Null == "null"

\* the default error of a rejected promise: new Error('Rejected promise')
RejectedPromise == "Rejected promise"

\* the error res.setHeader throws once the response is finished
HeadersSent == "ERR_HTTP_HEADERS_SENT"

\* the error value handlers raise
Errors == {"E1"}

\* what a handler can hand to its continuation
NextArgs == {Undef, Null, "route", "router"} \cup Errors

\* what a handler can throw, or reject its promise with
Thrown == {Undef, "E1"}

\* JavaScript truthiness of a continuation argument
Truthy(v) == v \notin {Undef, Null}

\* a || b
Or(a, b) == IF Truthy(a) THEN a ELSE b

\* the verbs handlers are registered under
Verbs == {"GET"}

\* handler arities: fn.length
Arities == {3, 4}

\* fn.length of the handlers whose shape is neither the one of a request
\* handler nor the one of an error handler, and of those two
ArityRange == {2, 3, 4, 5}

\* paths given to use() and route()
UsePaths == {<<"/">>}

RoutePaths == {<<"/", "a">>}

\* the requests dispatched: the last one has a url that is not a string
Requests ==
  { [method |-> "GET", url |-> <<"/", "a">>],
    [method |-> "OPTIONS", url |-> <<"/", "a">>],
    [method |-> "GET", url |-> Undefined] }

\* the requests dispatched to a Router with middleware under a prefix
PrefixRequests ==
  Requests \cup {[method |-> "GET", url |-> <<"/", "a", "/", "b">>]}

\* the request fields handle() overwrites, as the caller left them
EntryReq ==
  [baseUrl |-> <<"/", "m">>, params |-> << <<"p", "v">> >>, next |-> "outer"]

\* the same fields of a request no router has touched
FreshReq ==
  [baseUrl |-> Undefined, params |-> UndefinedObject, next |-> "undefined"]

\* paths of the middleware mounted under a prefix
PrefixPaths == {<<"/">>, <<"/", "a">>}

\* ------------------------------------------------------------------------
\* Strings
\* ------------------------------------------------------------------------

\* s.slice(n) and s.substring(0, n) for 0 <= n
SliceFrom(s, n) == IF n >= Len(s) THEN <<>> ELSE SubSeq(s, n + 1, Len(s))

Substring0(s, n) == IF n >= Len(s) THEN s ELSE SubSeq(s, 1, n)

\* s.slice(0, -n) for n > 0
SliceOffEnd(s, n) == IF n >= Len(s) THEN <<>> ELSE SubSeq(s, 1, Len(s) - n)

EndsWithSlash(s) == Len(s) > 0 /\ s[Len(s)] = "/"

StartsWith(s, p) == Len(p) <= Len(s) /\ SubSeq(s, 1, Len(p)) = p

\* ------------------------------------------------------------------------
\* lib/matcher.js (templates made of literal characters and named
\* parameters; every segment of a path of this model is one character, so a
\* named parameter takes exactly one character other than "/")
\* ------------------------------------------------------------------------

\* the tokens of a template that are named parameters, and their names
ParamTokens == {":k", ":m"}

ParamName(tok) == IF tok = ":k" THEN "k" ELSE "m"

ParamNames == {ParamName(tok) : tok \in ParamTokens}

\* the error decodeParam throws for an escape decodeURIComponent rejects, as
\* its status and its message; "%" is the one value of the model that is no
\* valid escape
DecodeFailed == "400 Failed to decode param '%'"

\* decodeParam returning val as it is: decodeURIComponent is not called
decodeParamUndecoded(val) == val

\* decodeParam(val): of the one-character values only "%" is not its own
\* decoding
decodeParam(val) == IF val = "%" THEN DecodeFailed ELSE val

\* the template as createURLPatternMatcher compiles it, before the optional
\* suffix {/*}? (end = false) or {/}? (end = true, not strict) is appended
PatternBase(pathname, end, strict) ==
  IF (~end \/ ~strict) /\ EndsWithSlash(pathname)
    THEN SliceOffEnd(pathname, 1)
    ELSE pathname

\* the text p is an instance of the template tmpl
Instance(tmpl, p) ==
  /\ Len(tmpl) = Len(p)
  /\ \A n \in 1..Len(tmpl) :
       IF tmpl[n] \in ParamTokens THEN p[n] # "/" ELSE p[n] = tmpl[n]

\* pattern.exec(p) succeeds
PatternMatches(pathname, end, strict, p) ==
  LET base == PatternBase(pathname, end, strict) IN
  IF ~end
    THEN \/ Instance(base, p)
         \/ Len(p) > Len(base) /\ Instance(base \o <<"/">>, Substring0(p, Len(base) + 1))
  ELSE IF ~strict THEN Instance(base, p) \/ Instance(base \o <<"/">>, p)
  ELSE Instance(pathname, p)

\* the named groups of the match from the last one of the template to the
\* first
GroupsFromTheEnd(tmpl, p) ==
  LET at == SelectSeq([n \in 1..Len(tmpl) |-> n], LAMBDA n : tmpl[n] \in ParamTokens)
  IN [n \in 1..Len(at) |->
        <<ParamName(tmpl[at[Len(at) + 1 - n]]), p[at[Len(at) + 1 - n]]>>]

\* the named groups of the match in the order of the template, as pairs
\* <<name, text>>
Groups(tmpl, p) ==
  LET at == SelectSeq([n \in 1..Len(tmpl) |-> n], LAMBDA n : tmpl[n] \in ParamTokens)
  IN [n \in 1..Len(at) |-> <<ParamName(tmpl[at[n]]), p[at[n]]>>]

\* what urlPatternMatcher returns for a match with the named groups
\* `groups`: the params, keys and consumed path; `error` is what decodeParam
\* threw, if it did
Matched(groups, matchedPath) ==
  [ ok     |-> TRUE,
    error  |-> IF \E n \in 1..Len(groups) : decodeParam(groups[n][2]) = DecodeFailed
                 THEN DecodeFailed ELSE Undef,
    params |-> [n \in 1..Len(groups) |-> <<groups[n][1], decodeParam(groups[n][2])>>],
    keys   |-> [n \in 1..Len(groups) |-> groups[n][1]],
    path   |-> matchedPath ]

\* match.pathname.input without what the wildcard of {/*}? matched
\* (groups['0']), if it took part in the match
MatchedPath(base, end, p) ==
  LET hasWildcard == ~end /\ Len(p) > Len(base)
      wildcardMatch == IF hasWildcard THEN SliceFrom(p, Len(base) + 1) ELSE <<>>
  IN IF ~end
       THEN IF hasWildcard /\ wildcardMatch # <<>>
              THEN SliceOffEnd(p, Len(wildcardMatch) + 1)
            ELSE IF hasWildcard
              THEN SliceOffEnd(p, 1)
            ELSE p
       ELSE p

\* urlPatternMatcher(p): FALSE in `ok`, or the result of the match
urlPatternMatcher(pathname, end, strict, p) ==
  IF ~PatternMatches(pathname, end, strict, p)
    THEN [ok |-> FALSE, error |-> Undef, params |-> <<>>, keys |-> <<>>, path |-> <<>>]
    ELSE Matched(Groups(PatternBase(pathname, end, strict), p),
                 MatchedPath(PatternBase(pathname, end, strict), end, p))

\* a raw regular expression given as the template: /source/ without anchors
\* and without groups, its source being literal characters
RegExp(source) == <<"RegExp">> \o source

InstanceOfRegExp(path) == Len(path) > 0 /\ path[1] = "RegExp"

\* the offsets at which the source occurs in p
Occurrences(source, p) ==
  {n \in 0..(Len(p) - Len(source)) : SubSeq(p, n + 1, n + Len(source)) = source}

\* regexpMatcher(p) of createRegexMatcher: path.exec(p) finds the source
\* anywhere in p, and match[0] is the text it took
regexpMatcher(source, p) ==
  IF Occurrences(source, p) = {}
    THEN [ok |-> FALSE, error |-> Undef, params |-> <<>>, keys |-> <<>>, path |-> <<>>]
    ELSE Matched(<<>>, source)

\* the function matcher(path, opts) returns, applied to p
matcher(path, end, strict, p) ==
  IF InstanceOfRegExp(path) THEN regexpMatcher(Tail(path), p)
  ELSE urlPatternMatcher(path, end, strict, p)

\* ------------------------------------------------------------------------
\* lib/layer.js
\* ------------------------------------------------------------------------

\* new Layer(path, opts, fn, method): `arity` is fn.length, `route` the index
\* of the Route the Router attached to the layer (0: none); `mounted` tells
\* that fn is a Router, whose stack is `inner`
Layer(path, end, strict, arity, method) ==
  [ tmpl   |-> path,
    end    |-> end,
    strict |-> strict,
    arity  |-> arity,
    method |-> method,
    route  |-> 0,
    keys   |-> <<>>,
    params |-> UndefinedObject,
    path   |-> Undefined,
    slash  |-> (path = <<"/">> /\ ~end),
    mounted |-> FALSE,
    inner  |-> <<>> ]

\* the loop over the matchers of Layer.prototype.match, `matched` being
\* what the layer's matcher returns: what the matcher throws leaves the
\* layer as it was and is the result (matchLayer of index.js)
LayerMatched(layer, path, matched) ==
  IF path # Undefined /\ matched.ok /\ matched.error # Undef
    THEN [layer |-> layer, match |-> matched.error]
  ELSE IF path # Undefined /\ matched.ok
    THEN [ layer |-> [layer EXCEPT !.params = matched.params,
                                   !.path = matched.path,
                                   !.keys = matched.keys],
           match |-> "true" ]
    ELSE [ layer |-> [layer EXCEPT !.params = UndefinedObject, !.path = Undefined],
           match |-> "false" ]

\* Layer.prototype.match: the layer with its match state updated, and the
\* result
LayerMatch(layer, path) ==
  IF path # Undefined /\ layer.slash
    THEN [layer |-> [layer EXCEPT !.params = <<>>, !.path = <<>>], match |-> "true"]
    ELSE LayerMatched(layer, path,
           matcher(layer.tmpl, layer.end, layer.strict, path))

\* ------------------------------------------------------------------------
\* lib/route.js: the Route object
\* ------------------------------------------------------------------------

\* new Route(path): methods is the Set in insertion order, all is methods._all
Route(path) == [path |-> path, stack |-> <<>>, methods |-> <<>>, all |-> FALSE]

\* Set.prototype.has / add on the insertion-ordered method set
Has(methods, m) == \E k \in 1..Len(methods) : methods[k] = m

SetAdd(methods, m) == IF Has(methods, m) THEN methods ELSE Append(methods, m)

\* _handlesMethod answering for the Route's handlers as a whole: true as
\* soon as the Route has a handler under some method
HandlesSomeMethod(route, method) == route.all \/ Len(route.methods) > 0

\* _handlesMethod without `if (method === 'HEAD' && !this.methods.has('HEAD'))
\* method = 'GET'`
HandlesMethodAsNamed(route, method) == route.all \/ Has(route.methods, method)

\* Route.prototype._handlesMethod
HandlesMethod(route, method) ==
  IF route.all THEN TRUE
  ELSE LET m == IF method = "HEAD" /\ ~Has(route.methods, "HEAD") THEN "GET" ELSE method
       IN Has(route.methods, m)

\* _methods without `if (this.methods.has('GET') && !this.methods.has('HEAD'))
\* methods.push('HEAD')`
RouteMethodsWithoutHead(route) == route.methods

\* Route.prototype._methods
RouteMethods(route) ==
  IF Has(route.methods, "GET") /\ ~Has(route.methods, "HEAD")
    THEN Append(route.methods, "HEAD")
    ELSE route.methods

\* ------------------------------------------------------------------------
\* State
\* ------------------------------------------------------------------------

VARIABLES
  opts,     \* the Router's options: caseSensitive, mergeParams, strict
  routerParams, \* router.params: per name, how many callbacks are registered
  stack,    \* router.stack: the Router's layers
  routes,   \* the Route objects, in creation order
  req,      \* the request object
  res,      \* the response object
  h,        \* the variables one call of handle() closes over
  rd,       \* per Route, the variables one call of dispatch() closes over
  ctl,      \* where control is: the event loop ("idle") or a handler's body
  pending,  \* handlers that returned without calling their continuation
  tasks,    \* the setImmediate queue
  cb,       \* what the final callback of handle() has observed
  g,        \* history of the dispatch, for stating properties
  conc      \* a second dispatch in flight through the same Router

vars == <<opts, routerParams, stack, routes, req, res, h, rd, ctl, pending, tasks, cb, g, conc>>

\* the call the synchronous code makes next: none, next(arg) of the Router
\* ("next") or next(arg) of the Route that layer i wraps ("routeNext")
NoCall == [fn |-> "none", i |-> 0, arg |-> Undef]

\* called[key] before the key is processed in a dispatch, and the entry
\* processParams writes: { error, match, value }
NotCalled == [called |-> FALSE, error |-> Null, match |-> Undef, value |-> Undef]

\* the variables one call of processParams closes over: the layer, i,
\* paramIndex, key, paramVal, and what the `done` of handle() closes over
NoParams ==
  [ layer |-> 0, i |-> 0, paramIndex |-> 0, key |-> Undef, paramVal |-> Undef,
    layerError |-> Undef, layerPath |-> Undefined, path |-> Undefined ]

\* the state as one record, on which the synchronous code below operates;
\* `call` is the call of a next() the code has reached
State ==
  [ opts |-> opts, routerParams |-> routerParams, stack |-> stack, routes |-> routes, req |-> req, res |-> res,
    h |-> h, rd |-> rd, ctl |-> ctl, pending |-> pending, tasks |-> tasks,
    cb |-> cb, g |-> g, conc |-> conc, call |-> NoCall ]

Idle == [kind |-> "idle", i |-> 0, j |-> 0, mode |-> "none", err |-> Undef]

\* the variables of Route.prototype.dispatch, before the Route is dispatched
NoDispatch ==
  [active |-> FALSE, idx |-> 0, sync |-> 0, unwind |-> FALSE, method |-> Undef]

\* g.reg, the registration call made last with its arguments: none so far
NoRegistration == [op |-> "none", fns |-> <<>>, name |-> Undef]

\* the response nothing has been written to
NoResponse == [headersSent |-> FALSE, allow |-> Undefined]

\* cb while the final callback of handle() has not been called
NoCallback ==
  [ count |-> 0, arg |-> Undef, baseUrl |-> Undefined,
    params |-> UndefinedObject, next |-> "undefined" ]

\* g before a dispatch
NoHistory ==
  [ ninv |-> 0, last |-> <<0, 0>>, rewrites |-> 0,
    silent |-> "no", escaped |-> FALSE, left |-> FALSE,
    flight |-> Undef, unconsumed |-> FALSE, exited |-> {},
    exit |-> "none", entry |-> FreshReq, rewriteAt |-> 0,
    plog |-> <<>>, pleft |-> [name \in ParamNames |-> Undef],
    thrown |-> Undef, reg |-> NoRegistration ]

\* conc while one dispatch at most is in flight: `other` holds a dispatch
\* that rests while the variables above describe another, `solo` the
\* described dispatch as it runs on layers no other dispatch touches
Unshared == [other |-> <<>>, solo |-> <<>>]

\* no request has been handed to the Router
NotStarted ==
  /\ conc = Unshared
  /\ opts = [caseSensitive |-> FALSE, mergeParams |-> FALSE, strict |-> FALSE]
  /\ routerParams = [name \in ParamNames |-> 0]
  /\ req = [ url |-> Undefined, method |-> Undef, baseUrl |-> Undefined,
             params |-> UndefinedObject, next |-> "undefined", route |-> 0,
             originalUrl |-> Undefined ]
  /\ res = NoResponse
  /\ h = [ started |-> FALSE, idx |-> 0, methods |-> Undefined,
           protohost |-> <<>>, removed |-> <<>>, slashAdded |-> FALSE,
           sync |-> 0, unwind |-> FALSE,
           parentParams |-> UndefinedObject, parentUrl |-> <<>>,
           paramcalled |-> [name \in ParamNames |-> NotCalled], pp |-> NoParams,
           saved |-> [baseUrl |-> Undefined, params |-> UndefinedObject,
                      next |-> "undefined"],
           outer |-> <<>> ]
  /\ ctl = Idle
  /\ pending = {}
  /\ tasks = <<>>
  /\ cb = NoCallback
  /\ g = NoHistory

\* new Router(): no layer is registered
Init ==
  /\ NotStarted
  /\ stack = <<>>
  /\ routes = <<>>
  /\ rd = <<>>

\* ------------------------------------------------------------------------
\* Registration
\* ------------------------------------------------------------------------

\* Layer objects created so far
RECURSIVE SumRouteLayers(_)
SumRouteLayers(k) ==
  IF k = 0 THEN 0 ELSE Len(routes[k].stack) + SumRouteLayers(k - 1)

NumLayers == Len(stack) + SumRouteLayers(Len(routes))

Registering == ~h.started /\ ctl.kind = "idle"

dispatchVars == <<req, res, h, ctl, pending, tasks, cb, g, conc>>

\* router.use(path, fn)
Use(path, arity) ==
  /\ Registering
  /\ NumLayers < MaxLayers
  /\ stack' = Append(stack, Layer(path, FALSE, FALSE, arity, Undef))
  /\ UNCHANGED <<opts, routerParams, routes, rd, dispatchVars>>

\* router.route(path)
RouterRoute(path) ==
  /\ Registering
  /\ NumLayers < MaxLayers
  /\ routes' = Append(routes, Route(path))
  /\ stack' = Append(stack,
       [Layer(path, TRUE, opts.strict, 3, Undef) EXCEPT !.route = Len(routes) + 1])
  /\ rd' = Append(rd, NoDispatch)
  /\ UNCHANGED <<opts, routerParams, dispatchVars>>

\* route[verb](fn) for an HTTP verb
RouteVerb(r, verb, arity) ==
  /\ Registering
  /\ NumLayers < MaxLayers
  /\ r \in 1..Len(routes)
  /\ routes' = [routes EXCEPT
       ![r].methods = SetAdd(@, verb),
       ![r].stack = Append(@, Layer(<<"/">>, TRUE, FALSE, arity, verb))]
  /\ UNCHANGED <<opts, routerParams, stack, rd, dispatchVars>>

\* router.param(name, fn)
RouterParam(name) ==
  /\ Registering
  /\ routerParams[name] < MaxParamCallbacks
  /\ routerParams' = [routerParams EXCEPT ![name] = @ + 1]
  /\ UNCHANGED <<opts, stack, routes, rd, dispatchVars>>

\* route.all(fn)
RouteAll(r, arity) ==
  /\ Registering
  /\ NumLayers < MaxLayers
  /\ r \in 1..Len(routes)
  /\ routes' = [routes EXCEPT
       ![r].all = TRUE,
       ![r].stack = Append(@, Layer(<<"/">>, TRUE, FALSE, arity, Undef))]
  /\ UNCHANGED <<opts, routerParams, stack, rd, dispatchVars>>

\* the layer router.use(path, inner) makes for a Router `inner` without
\* layers: the function router(req, res, next) of the constructor is its
\* handler
MountLayer(path) == [Layer(path, FALSE, FALSE, 3, Undef) EXCEPT !.mounted = TRUE]

RECURSIVE IsRouter(_, _), Placed(_, _, _), Nested(_, _)

\* `where` leads to a Router: <<>> to the one that owns layers, <<i>> to the
\* Router mounted by its layer i, <<i, k>> to the one mounted by layer k of
\* that Router
IsRouter(layers, where) ==
  IF Len(where) = 0 THEN TRUE
  ELSE IF Head(where) \notin 1..Len(layers) THEN FALSE
  ELSE IF ~layers[Head(where)].mounted THEN FALSE
  ELSE IsRouter(layers[Head(where)].inner, Tail(where))

\* stack.push(layer) in the Router `where` leads to
Placed(layers, where, layer) ==
  IF Len(where) = 0 THEN Append(layers, layer)
  ELSE [layers EXCEPT ![Head(where)].inner = Placed(@, Tail(where), layer)]

\* the first n layers with the layers of the Routers mounted by them
Nested(layers, n) ==
  IF n = 0 THEN 0
  ELSE 1 + Nested(layers[n].inner, Len(layers[n].inner)) + Nested(layers, n - 1)

\* use(path, fn) on the Router `where` leads to
UseOn(where, path, arity) ==
  /\ Registering
  /\ IsRouter(stack, where)
  /\ Nested(stack, Len(stack)) < MaxLayers
  /\ stack' = Placed(stack, where, Layer(path, FALSE, FALSE, arity, Undef))
  /\ UNCHANGED <<opts, routerParams, routes, rd, dispatchVars>>

\* use(path, new Router()) on the Router `where` leads to
MountOn(where, path) ==
  /\ Registering
  /\ IsRouter(stack, where)
  /\ Nested(stack, Len(stack)) < MaxLayers
  /\ stack' = Placed(stack, where, MountLayer(path))
  /\ UNCHANGED <<opts, routerParams, routes, rd, dispatchVars>>

\* ------------------------------------------------------------------------
\* index.js: helpers of handle()
\* ------------------------------------------------------------------------

\* the synchronous-depth threshold of the Router loop and of the Route loop
MaxSyncStack == 100

\* first index (from 0) at which `sub` occurs in s at or after `from`, or -1
IndexOf(s, sub, from) ==
  LET hits == {k \in from..(Len(s) - Len(sub)) : SubSeq(s, k + 1, k + Len(sub)) = sub}
  IN IF hits = {} THEN -1 ELSE CHOOSE k \in hits : \A l \in hits : k <= l

\* getProtohost(url), '' standing for undefined as in `getProtohost(url) || ''`
getProtohost(url) ==
  IF url = Undefined \/ Len(url) = 0 \/ url[1] = "/" THEN <<>>
  ELSE
    LET searchIndex == IndexOf(url, <<"?">>, 0)
        pathLength == IF searchIndex # -1 THEN searchIndex ELSE Len(url)
        fqdnIndex == IndexOf(Substring0(url, pathLength), <<":", "/", "/">>, 0)
        slash == IndexOf(url, <<"/">>, 3 + fqdnIndex)
    IN IF fqdnIndex # -1 THEN Substring0(url, IF slash = -1 THEN 0 ELSE slash) ELSE <<>>

\* the pathname taken from request.originalUrl: what a handler assigns to
\* request.url is not seen
getPathnameOfOriginalUrl(r) ==
  IF r.originalUrl = Undefined THEN Undefined
  ELSE LET q == IndexOf(r.originalUrl, <<"?">>, 0)
       IN IF q = -1 THEN r.originalUrl ELSE Substring0(r.originalUrl, q)

\* the url from its path on and up to its query string
PathOf(url, protohost) ==
  IF IndexOf(url, <<"?">>, 0) = -1 THEN SliceFrom(url, Len(protohost))
  ELSE SubSeq(url, Len(protohost) + 1, IndexOf(url, <<"?">>, 0))

\* getPathname(req): parseUrl(req).pathname, the url without its scheme and
\* host and up to its query string; undefined when request.url is not a
\* string
getPathname(r) ==
  IF r.url = Undefined THEN Undefined ELSE PathOf(r.url, getProtohost(r.url))

\* matchLayer(layer, path): layer.match(path), an exception becoming the result
matchLayer(layer, path) == LayerMatch(layer, path)

\* obj[key] and obj[key] = val on objects as sequences of pairs
Get(obj, key) ==
  IF \E n \in 1..Len(obj) : obj[n][1] = key
    THEN obj[CHOOSE n \in 1..Len(obj) : obj[n][1] = key][2]
    ELSE Undef

Put(obj, key, val) ==
  IF \E n \in 1..Len(obj) : obj[n][1] = key
    THEN [n \in 1..Len(obj) |-> IF obj[n][1] = key THEN <<key, val>> ELSE obj[n]]
    ELSE Append(obj, <<key, val>>)

\* Object.assign({...parent}, params) on objects as sequences of pairs
RECURSIVE Assign(_, _)
Assign(obj, params) ==
  IF params = <<>> THEN obj
  ELSE LET kv == Head(params)
           at == {k \in 1..Len(obj) : obj[k][1] = kv[1]}
       IN Assign(IF at = {} THEN Append(obj, kv)
                 ELSE [obj EXCEPT ![CHOOSE k \in at : TRUE] = kv],
                 Tail(params))

\* the number of numeric keys a params object can hold
MaxKeys == 3

\* the property name of the array index n
Key(n) == <<"0", "1", "2", "3", "4", "5", "6", "7", "8", "9">>[n + 1]

\* `key in obj`
In(key, obj) == \E n \in 1..Len(obj) : obj[n][1] = key

\* `delete obj[key]`
Delete(obj, key) == SelectSeq(obj, LAMBDA kv : kv[1] # key)

\* `while (i in obj) i++` from i = 0: the number of consecutive numeric keys
Gap(obj) ==
  CHOOSE i \in 0..Len(obj) :
    ~In(Key(i), obj) /\ \A n \in 0..(i - 1) : In(Key(n), obj)

\* the loop `for (i--; i >= 0; i--)` of mergeParams from index i on: params
\* with its numeric keys moved up by o
RECURSIVE Offset(_, _, _)
Offset(params, i, o) ==
  IF i < 0 THEN params
  ELSE LET moved == Put(params, Key(i + o), Get(params, Key(i)))
       IN Offset(IF i < o THEN Delete(moved, Key(i)) ELSE moved, i - 1, o)

\* params as mergeParams(params, parent) leaves it: it offsets the numeric
\* keys in place
Offsetted(params, parent) ==
  IF parent = UndefinedObject \/ ~In(Key(0), params) \/ ~In(Key(0), parent)
    THEN params
    ELSE Offset(params, Gap(params) - 1, Gap(parent))

\* mergeParams(params, parent)
mergeParams(params, parent) ==
  IF parent = UndefinedObject THEN params
  ELSE Assign(parent, Offsetted(params, parent))

\* setImmediate(fn): the argument is not handed over
SetImmediateWithoutArg(s, fn, i, arg) ==
  [s EXCEPT !.tasks = Append(@, [fn |-> fn, i |-> i, arg |-> Undef])]

\* setImmediate(fn, arg)
SetImmediate(s, fn, i, arg) ==
  [s EXCEPT !.tasks = Append(@, [fn |-> fn, i |-> i, arg |-> arg])]

\* Object.keys(options).sort() in sendOptionsResponse: the distinct methods in
\* alphabetical order
SortedMethods == <<"GET", "HEAD", "OPTIONS", "POST">>

AllowList(methods) == SelectSeq(SortedMethods, LAMBDA m : Has(methods, m))

\* the callback of a Router that was called as the handler of a layer of
\* another Router is the next() of that Router: the code goes on in the
\* closure of the enclosing handle(), h.outer, which takes the stack of the
\* Router that ends with the match state of its layers
Returned(s, arg) ==
  LET f == s.h.outer[1]
  IN [s EXCEPT !.stack = [f.stack EXCEPT ![f.at].inner = s.stack],
               !.routes = f.routes,
               !.rd = f.rd,
               !.routerParams = f.routerParams,
               !.h = f.h,
               !.call = [fn |-> "next", i |-> 0, arg |-> arg]]

\* restore() called without 'params': the callback sees the params of the
\* last layer
RestoredWithoutParams(s, arg) ==
  LET r == [s.req EXCEPT !.baseUrl = s.h.saved.baseUrl,
                         !.next = s.h.saved.next]
  IN [s EXCEPT !.req = r,
               !.cb = [ count |-> s.cb.count + 1, arg |-> arg,
                        baseUrl |-> r.baseUrl, params |-> r.params,
                        next |-> r.next ]]

\* restore() calling the callback without the arguments it got
RestoredWithoutArgs(s, arg) ==
  LET r == [s.req EXCEPT !.baseUrl = s.h.saved.baseUrl,
                         !.next = s.h.saved.next,
                         !.params = s.h.saved.params]
  IN [s EXCEPT !.req = r,
               !.cb = [ count |-> s.cb.count + 1, arg |-> Undef,
                        baseUrl |-> r.baseUrl, params |-> r.params,
                        next |-> r.next ]]

\* the function restore(callback, req, 'baseUrl', 'next', 'params') returns:
\* it puts the saved values back and calls the final callback, which here
\* records its argument and the request fields it sees
Restored(s, arg) ==
  LET r == [s.req EXCEPT !.baseUrl = s.h.saved.baseUrl,
                         !.next = s.h.saved.next,
                         !.params = s.h.saved.params]
  IN IF s.h.outer # <<>> THEN Returned([s EXCEPT !.req = r], arg)
     ELSE [s EXCEPT !.req = r,
                    !.cb = [ count |-> s.cb.count + 1, arg |-> arg,
                             baseUrl |-> r.baseUrl, params |-> r.params,
                             next |-> r.next ]]

\* trySendOptionsResponse(res, methods, fn): res.setHeader throws once the
\* headers are sent, and the exception goes to fn
trySendOptionsResponse(s, methods) ==
  IF s.res.headersSent
    THEN Restored(s, HeadersSent)
    ELSE [s EXCEPT !.res = [headersSent |-> TRUE, allow |-> AllowList(methods)]]

\* onDone without its `return`: the callback is called and the OPTIONS
\* response is written as well
DoneFallingThrough(s, arg) ==
  IF s.h.methods # Undefined
    THEN IF Truthy(arg) \/ Len(s.h.methods) = 0
           THEN trySendOptionsResponse(Restored(s, arg), s.h.methods)
           ELSE trySendOptionsResponse(s, s.h.methods)
    ELSE Restored(s, arg)

\* onDone testing `methods.length === 0` only: the automatic response is
\* written over an error
DoneAnsweringOverError(s, arg) ==
  IF s.h.methods # Undefined
    THEN IF Len(s.h.methods) = 0
           THEN Restored(s, arg)
           ELSE trySendOptionsResponse(s, s.h.methods)
    ELSE Restored(s, arg)

\* done(arg): restore(...), wrapped by generateOptionsResponder's onDone when
\* the request entered handle() as OPTIONS
Done(s, arg) ==
  IF s.h.methods # Undefined
    THEN IF Truthy(arg) \/ Len(s.h.methods) = 0
           THEN Restored(s, arg)
           ELSE trySendOptionsResponse(s, s.h.methods)
    ELSE Restored(s, arg)

\* the layer at position <<i>> of the Router's stack, or <<i, j>>: layer j of
\* the Route that layer i wraps
LayerAt(s, i, j) ==
  IF j = 0 THEN s.stack[i] ELSE s.routes[s.stack[i].route].stack[j]

\* control enters the handler function of layer <<i, j>>
Invoke(s, i, j, mode, err) ==
  [s EXCEPT !.ctl = [kind |-> "handler", i |-> i, j |-> j,
                     mode |-> mode, err |-> err],
            !.g.ninv = @ + 1,
            !.g.last = <<i, j>>]

\* ------------------------------------------------------------------------
\* The Router loop (index.js) and the Route loop (lib/route.js)
\* ------------------------------------------------------------------------

RECURSIVE Scan(_, _, _, _), RouteScan(_, _, _), Run(_)

\* the code calls fn(arg): next of the Router, or next of the Route wrapped
\* by layer i
Call(s, fn, i, arg) == [s EXCEPT !.call = [fn |-> fn, i |-> i, arg |-> arg]]

\* "router" taken for "route": the loop goes on with the next layer
LayerErrorRouteOrRouter(err) == IF err \in {"route", "router"} THEN Null ELSE err

\* `const layerError = err === 'route' ? null : err` of next()
LayerError(err) == IF err = "route" THEN Null ELSE err

\* the continuation handed to the handler of layer <<i, j>> is called with v
Signal(s, i, j, v) ==
  IF j = 0 THEN Call(s, "next", 0, v) ELSE Call(s, "routeNext", i, v)

\* dispatch() looking the layers up under request.method as it is
RouteDispatchUnderRequestMethod(s, i) ==
  LET r == s.stack[i].route
      route == s.routes[r]
      s1 == [s EXCEPT !.rd[r] = [NoDispatch EXCEPT !.active = TRUE]]
  IN IF Len(route.stack) = 0 THEN Call(s1, "next", 0, Undef)
     ELSE Call([s1 EXCEPT !.rd[r].method = s1.req.method, !.req.route = r],
               "routeNext", i, Undef)

\* Route.prototype.dispatch(req, res, done), done being the Router's next
RouteDispatch(s, i) ==
  LET r == s.stack[i].route
      route == s.routes[r]
      s1 == [s EXCEPT !.rd[r] = [NoDispatch EXCEPT !.active = TRUE]]
  IN IF Len(route.stack) = 0 THEN Call(s1, "next", 0, Undef)
     ELSE
       LET method == IF s1.req.method = "HEAD" /\ ~Has(route.methods, "HEAD")
                       THEN "GET" ELSE s1.req.method
       IN Call([s1 EXCEPT !.rd[r].method = method, !.req.route = r],
               "routeNext", i, Undef)

\* handleRequest calling only the functions of length 3
handleRequestExactlyThree(s, i, j) ==
  LET layer == LayerAt(s, i, j) IN
  IF layer.arity # 3 THEN Signal(s, i, j, Undef)
  ELSE IF j = 0 /\ layer.route # 0 THEN RouteDispatch(s, i)
  ELSE Invoke(s, i, j, "request", Undef)

\* the variables handle() declares before its first next(), for a request
\* that comes with this method and url and with the fields of `entry`
Closure(method, url, entry) ==
  [ started |-> TRUE, idx |-> 0,
    methods |-> IF method = "OPTIONS" THEN <<>> ELSE Undefined,
    protohost |-> getProtohost(url),
    removed |-> <<>>, slashAdded |-> FALSE,
    sync |-> 0, unwind |-> FALSE,
    parentParams |-> entry.params,
    parentUrl |-> IF entry.baseUrl = Undefined THEN <<>> ELSE entry.baseUrl,
    paramcalled |-> [name \in ParamNames |-> NotCalled],
    pp |-> NoParams,
    saved |-> entry,
    outer |-> <<>> ]

\* handle() called for a Router mounted under a prefix with '' for
\* parentUrl, whatever request.baseUrl is
RouterHandleFromRoot(s, i) ==
  LET entry == [baseUrl |-> s.req.baseUrl, params |-> s.req.params, next |-> s.req.next]
      frame == [ at |-> i, stack |-> s.stack, routes |-> s.routes, rd |-> s.rd,
                 routerParams |-> s.routerParams, h |-> s.h ]
  IN Call([s EXCEPT
             !.stack = s.stack[i].inner,
             !.routes = <<>>,
             !.rd = <<>>,
             !.routerParams = [name \in ParamNames |-> 0],
             !.req.baseUrl = <<>>,
             !.req.next = "next",
             !.h = [Closure(s.req.method, s.req.url, entry)
                      EXCEPT !.parentUrl = <<>>, !.outer = <<frame>>]],
          "next", 0, Undef)

\* the handler of the layer at i is a Router: router(req, res, next) calls
\* router.handle(req, res, next) with the request as the enclosing Router
\* has it and that Router's next for the callback; the stack, the params
\* and the closure of handle() are those of the mounted Router from here on
RouterHandle(s, i) ==
  LET entry == [baseUrl |-> s.req.baseUrl, params |-> s.req.params, next |-> s.req.next]
      frame == [ at |-> i, stack |-> s.stack, routes |-> s.routes, rd |-> s.rd,
                 routerParams |-> s.routerParams, h |-> s.h ]
  IN Call([s EXCEPT
             !.stack = s.stack[i].inner,
             !.routes = <<>>,
             !.rd = <<>>,
             !.routerParams = [name \in ParamNames |-> 0],
             !.req.baseUrl = IF @ = Undefined THEN <<>> ELSE @,
             !.req.next = "next",
             !.h = [Closure(s.req.method, s.req.url, entry) EXCEPT !.outer = <<frame>>]],
          "next", 0, Undef)

\* Layer.prototype.handleRequest(req, res, next) of layer <<i, j>>
handleRequest(s, i, j) ==
  LET layer == LayerAt(s, i, j) IN
  IF layer.arity > 3 THEN Signal(s, i, j, Undef)
  ELSE IF j = 0 /\ layer.route # 0 THEN RouteDispatch(s, i)
  ELSE IF j = 0 /\ layer.mounted THEN RouterHandle(s, i)
  ELSE Invoke(s, i, j, "request", Undef)

\* handleError resuming the continuation without the error
handleErrorDroppingError(s, i, j, error) ==
  LET layer == LayerAt(s, i, j) IN
  IF layer.arity # 4 THEN Signal(s, i, j, Undef)
  ELSE Invoke(s, i, j, "error", error)

\* handleError without its check of fn.length: every layer is called as an
\* error handler
handleErrorAnyArity(s, i, j, error) == Invoke(s, i, j, "error", error)

\* Layer.prototype.handleError(error, req, res, next) of layer <<i, j>>
handleError(s, i, j, error) ==
  LET layer == LayerAt(s, i, j) IN
  IF layer.arity # 4 THEN Signal(s, i, j, error)
  ELSE Invoke(s, i, j, "error", error)

\* trimPrefix without the two validations of layerPath against path
trimPrefixUnvalidated(s, i, layerError, layerPath, path) ==
  LET removed == layerPath
      url1 == s.h.protohost \o SliceFrom(s.req.url, Len(s.h.protohost) + Len(removed))
      addSlash == s.h.protohost = <<>> /\ (url1 = <<>> \/ url1[1] # "/")
      trimmed ==
        [s EXCEPT !.h.removed = removed,
                  !.req.url = IF addSlash THEN <<"/">> \o url1 ELSE url1,
                  !.h.slashAdded = IF addSlash THEN TRUE ELSE @,
                  !.req.baseUrl = s.h.parentUrl \o
                     (IF EndsWithSlash(removed) THEN SliceOffEnd(removed, 1)
                      ELSE removed)]
      s1 == IF Len(layerPath) # 0 THEN trimmed ELSE s
  IN IF Truthy(layerError)
       THEN handleError(s1, i, 0, layerError)
     ELSE handleRequest(s1, i, 0)

\* trimPrefix(layer, layerError, layerPath, path) for the layer at i
trimPrefix(s, i, layerError, layerPath, path) ==
  LET c == IF Len(path) > Len(layerPath) THEN path[Len(layerPath) + 1] ELSE Undef
      removed == layerPath
      url1 == s.h.protohost \o SliceFrom(s.req.url, Len(s.h.protohost) + Len(removed))
      addSlash == s.h.protohost = <<>> /\ (url1 = <<>> \/ url1[1] # "/")
      trimmed ==
        [s EXCEPT !.h.removed = removed,
                  !.req.url = IF addSlash THEN <<"/">> \o url1 ELSE url1,
                  !.h.slashAdded = IF addSlash THEN TRUE ELSE @,
                  !.req.baseUrl = s.h.parentUrl \o
                     (IF EndsWithSlash(removed) THEN SliceOffEnd(removed, 1)
                      ELSE removed)]
      s1 == IF Len(layerPath) # 0 THEN trimmed ELSE s
  IN IF Len(layerPath) # 0 /\ layerPath # Substring0(path, Len(layerPath))
       THEN Call(s, "next", 0, layerError)
     ELSE IF Len(layerPath) # 0 /\ c # Undef /\ c # "/"
       THEN Call(s, "next", 0, layerError)
     ELSE IF Truthy(layerError)
       THEN handleError(s1, i, 0, layerError)
     ELSE handleRequest(s1, i, 0)

\* the callback handle() gives to processParams taking no notice of its
\* argument
ParamsDoneIgnoringError(s, i, err, layerError, layerPath, path) ==
  LET s1 == [s EXCEPT !.h.unwind = TRUE] IN
  IF s.stack[i].route # 0 THEN handleRequest(s1, i, 0)
  ELSE trimPrefix(s1, i, layerError, layerPath, path)

\* the callback handle() gives to processParams going on to the next layer
\* when an error is in flight, as it does when a parameter has failed
ParamsDoneLeavingInError(s, i, err, layerError, layerPath, path) ==
  LET s1 == [s EXCEPT !.h.unwind = TRUE] IN
  IF Truthy(err) \/ Truthy(layerError) THEN Call(s1, "next", 0, Or(layerError, err))
  ELSE IF s.stack[i].route # 0 THEN handleRequest(s1, i, 0)
  ELSE trimPrefix(s1, i, layerError, layerPath, path)

\* the callback of processParams reading layer.path when it is called
ParamsDoneReadingLayer(s, i, err, layerError, layerPath, path) ==
  LET s1 == [s EXCEPT !.h.unwind = TRUE] IN
  IF Truthy(err) THEN Call(s1, "next", 0, Or(layerError, err))
  ELSE IF s.stack[i].route # 0 THEN handleRequest(s1, i, 0)
  ELSE trimPrefix(s1, i, layerError, s.stack[i].path, path)

\* the callback handle() gives to processParams, for the layer at i; the
\* `sync = 0` that ends it runs when the calls below have returned
ParamsDone(s, i, err, layerError, layerPath, path) ==
  LET s1 == [s EXCEPT !.h.unwind = TRUE] IN
  IF Truthy(err) THEN Call(s1, "next", 0, Or(layerError, err))
  ELSE IF s.stack[i].route # 0 THEN handleRequest(s1, i, 0)
  ELSE trimPrefix(s1, i, layerError, layerPath, path)

\* a step of the parameter processing, for the history in g.plog: the layer
\* captured `val` for `key` ("capture"), callback number idx of the key was
\* called with `val` ("call"), or that callback handed an error to its
\* continuation ("error")
ParamEvent(ev, s, idx) ==
  [ ev |-> ev, layer |-> s.h.pp.layer, key |-> s.h.pp.key, val |-> s.h.pp.paramVal,
    idx |-> idx ]

\* control enters callback number paramIndex of the key: the call
\* fn(req, res, paramCallback, paramVal, key)
InvokeParam(s) ==
  [s EXCEPT !.ctl = [kind |-> "param", i |-> s.h.pp.layer, j |-> 0,
                     mode |-> "param", err |-> Undef],
            !.g.plog = Append(@, ParamEvent("call", s, s.h.pp.paramIndex))]

\* paramCallback(err) of processParams accepting a callback's error without
\* remembering it
ParamCallbackForgettingError(s, err) ==
  LET key == s.h.pp.key
      s1 == [s EXCEPT !.h.pp.paramIndex = @ + 1,
                      !.h.paramcalled[key].value = Get(s.req.params, key)]
  IN IF Truthy(err) THEN Call(s1, "param", 0, err)
     ELSE IF s.h.pp.paramIndex >= s.routerParams[key] THEN Call(s1, "param", 0, Undef)
     ELSE InvokeParam(s1)

\* paramCallback(err) of processParams without `paramCalled.value =
\* req.params[key]`: the entry keeps the value it was written with
ParamCallbackWithoutValue(s, err) ==
  LET key == s.h.pp.key
      s1 == [s EXCEPT !.h.pp.paramIndex = @ + 1]
  IN IF Truthy(err)
       THEN Call([s1 EXCEPT !.h.paramcalled[key].error = err], "param", 0, err)
     ELSE IF s.h.pp.paramIndex >= s.routerParams[key] THEN Call(s1, "param", 0, Undef)
     ELSE InvokeParam(s1)

\* paramCallback(err) of processParams taking "route" for no argument
ParamCallbackPassingRoute(s, err) ==
  LET key == s.h.pp.key
      s1 == [s EXCEPT !.h.pp.paramIndex = @ + 1,
                      !.h.paramcalled[key].value = Get(s.req.params, key)]
  IN IF Truthy(err) /\ err # "route"
       THEN Call([s1 EXCEPT !.h.paramcalled[key].error = err], "param", 0, err)
     ELSE IF s.h.pp.paramIndex >= s.routerParams[key] THEN Call(s1, "param", 0, Undef)
     ELSE InvokeParam(s1)

\* paramCallback(err) of processParams
ParamCallback(s, err) ==
  LET key == s.h.pp.key
      s1 == [s EXCEPT !.h.pp.paramIndex = @ + 1,
                      !.h.paramcalled[key].value = Get(s.req.params, key)]
  IN IF Truthy(err)
       THEN Call([s1 EXCEPT !.h.paramcalled[key].error = err], "param", 0, err)
     ELSE IF s.h.pp.paramIndex >= s.routerParams[key] THEN Call(s1, "param", 0, Undef)
     ELSE InvokeParam(s1)

\* the body of param() without the memo `called`: the callbacks of the key
\* run for every layer that captures it
ParamKeyWithoutMemo(s0, key, paramVal) ==
  LET s == [s0 EXCEPT !.h.pp.i = @ + 1, !.h.pp.paramIndex = 0,
                      !.h.pp.key = key, !.h.pp.paramVal = paramVal]
      s1 == [s EXCEPT !.g.plog = Append(@, ParamEvent("capture", s, 0))]
  IN IF paramVal = Undef \/ s.routerParams[key] = 0 THEN Call(s, "param", 0, Undef)
     ELSE Call([s1 EXCEPT !.h.paramcalled[key] =
                  [called |-> TRUE, error |-> Null, match |-> paramVal,
                   value |-> paramVal]],
               "paramCallback", 0, Undef)

\* the body of param() writing an entry of `called` without the value it
\* was written for
ParamKeyForgettingMatch(s0, key, paramVal) ==
  LET paramCalled == s0.h.paramcalled[key]
      s == [s0 EXCEPT !.h.pp.i = @ + 1, !.h.pp.paramIndex = 0,
                      !.h.pp.key = key, !.h.pp.paramVal = paramVal]
      s1 == [s EXCEPT !.g.plog = Append(@, ParamEvent("capture", s, 0))]
  IN IF paramVal = Undef \/ s.routerParams[key] = 0 THEN Call(s, "param", 0, Undef)
     ELSE IF /\ paramCalled.called
             /\ \/ paramCalled.match = paramVal
                \/ Truthy(paramCalled.error) /\ paramCalled.error # "route"
       THEN Call([s1 EXCEPT !.req.params = Put(@, key, paramCalled.value)],
                 "param", 0, paramCalled.error)
     ELSE Call([s1 EXCEPT !.h.paramcalled[key] =
                  [called |-> TRUE, error |-> Null, match |-> Undef,
                   value |-> paramVal]],
               "paramCallback", 0, Undef)

\* the body of param() for the key it takes from keys[i++]
ParamKey(s0, key, paramVal) ==
  LET paramCalled == s0.h.paramcalled[key]
      s == [s0 EXCEPT !.h.pp.i = @ + 1, !.h.pp.paramIndex = 0,
                      !.h.pp.key = key, !.h.pp.paramVal = paramVal]
      s1 == [s EXCEPT !.g.plog = Append(@, ParamEvent("capture", s, 0))]
  IN IF paramVal = Undef \/ s.routerParams[key] = 0 THEN Call(s, "param", 0, Undef)
     ELSE IF /\ paramCalled.called
             /\ \/ paramCalled.match = paramVal
                \/ Truthy(paramCalled.error) /\ paramCalled.error # "route"
       THEN Call([s1 EXCEPT !.req.params = Put(@, key, paramCalled.value)],
                 "param", 0, paramCalled.error)
     ELSE Call([s1 EXCEPT !.h.paramcalled[key] =
                  [called |-> TRUE, error |-> Null, match |-> paramVal,
                   value |-> paramVal]],
               "paramCallback", 0, Undef)

\* param(err) of processParams
Param(s, err) ==
  LET pp == s.h.pp
      keys == s.stack[pp.layer].keys
  IN IF Truthy(err)
       THEN ParamsDone(s, pp.layer, err, pp.layerError, pp.layerPath, pp.path)
     ELSE IF pp.i >= Len(keys)
       THEN ParamsDone(s, pp.layer, Undef, pp.layerError, pp.layerPath, pp.path)
     ELSE ParamKey(s, keys[pp.i + 1], Get(s.req.params, keys[pp.i + 1]))

\* processParams(params, layer, called, req, res, done): without keys the
\* fast track, else the first param()
processParams(s, i, layerError, layerPath, path) ==
  IF Len(s.stack[i].keys) = 0
    THEN ParamsDone(s, i, Undef, layerError, layerPath, path)
    ELSE Call([s EXCEPT !.h.pp = [ layer |-> i, i |-> 0, paramIndex |-> 0,
                                   key |-> Undef, paramVal |-> Undef,
                                   layerError |-> layerError,
                                   layerPath |-> layerPath, path |-> path ]],
              "param", 0, Undef)

\* one round of the loop of next() without `if (layerError) { match = false;
\* continue }`: a Route is entered with an error pending
ScanLayerEnteringRoutes(s, path, layerError, m) ==
  LET cur == s.h.idx + 1
      s1 == [s EXCEPT !.h.idx = cur, !.stack[cur] = m.layer]
      route == m.layer.route
      le == IF m.match \notin {"true", "false"} THEN Or(layerError, m.match)
            ELSE layerError
  IN IF m.match # "true" THEN Scan(s1, path, m.match, le)
     ELSE IF route = 0 THEN Scan(s1, path, "true", le)
     ELSE
       LET method == s1.req.method
           hasMethod == HandlesMethod(s1.routes[route], method)
           s2 == IF ~hasMethod /\ method = "OPTIONS" /\ s1.h.methods # Undefined
                   THEN [s1 EXCEPT !.h.methods = @ \o RouteMethods(s1.routes[route])]
                   ELSE s1
       IN Scan(s2, path, IF ~hasMethod /\ method # "HEAD" THEN "false" ELSE "true", le)

\* one round of the loop of next() with the OPTIONS accounting ahead of
\* `if (!route) continue`: a layer without a Route is counted under GET
ScanLayerCountingMiddleware(s, path, layerError, m) ==
  LET cur == s.h.idx + 1
      s1 == [s EXCEPT !.h.idx = cur, !.stack[cur] = m.layer]
      route == m.layer.route
      le == IF m.match \notin {"true", "false"} THEN Or(layerError, m.match)
            ELSE layerError
  IN IF m.match # "true" THEN Scan(s1, path, m.match, le)
     ELSE IF route = 0
       THEN Scan(IF s1.h.methods # Undefined
                   THEN [s1 EXCEPT !.h.methods = Append(@, "GET")] ELSE s1,
                 path, "true", le)
     ELSE IF Truthy(le) THEN Scan(s1, path, "false", le)
     ELSE
       LET method == s1.req.method
           hasMethod == HandlesMethod(s1.routes[route], method)
           s2 == IF ~hasMethod /\ method = "OPTIONS" /\ s1.h.methods # Undefined
                   THEN [s1 EXCEPT !.h.methods = @ \o RouteMethods(s1.routes[route])]
                   ELSE s1
       IN Scan(s2, path, IF ~hasMethod /\ method # "HEAD" THEN "false" ELSE "true", le)

\* one round of the loop of next(), m being what matchLayer returned for the
\* layer at idx
ScanLayer(s, path, layerError, m) ==
  LET cur == s.h.idx + 1
      s1 == [s EXCEPT !.h.idx = cur, !.stack[cur] = m.layer]
      route == m.layer.route
      le == IF m.match \notin {"true", "false"} THEN Or(layerError, m.match)
            ELSE layerError
  IN IF m.match # "true" THEN Scan(s1, path, m.match, le)
     ELSE IF route = 0 THEN Scan(s1, path, "true", le)
     ELSE IF Truthy(le) THEN Scan(s1, path, "false", le)
     ELSE
       LET method == s1.req.method
           hasMethod == HandlesMethod(s1.routes[route], method)
           s2 == IF ~hasMethod /\ method = "OPTIONS" /\ s1.h.methods # Undefined
                   THEN [s1 EXCEPT !.h.methods = @ \o RouteMethods(s1.routes[route])]
                   ELSE s1
       IN Scan(s2, path, IF ~hasMethod /\ method # "HEAD" THEN "false" ELSE "true", le)

\* the `while (match !== true && idx < stack.length)` loop of next()
Scan(s, path, match, layerError) ==
  IF match = "true" \/ s.h.idx >= Len(s.stack)
    THEN [s |-> s, match |-> match, layerError |-> layerError]
    ELSE ScanLayer(s, path, layerError, matchLayer(s.stack[s.h.idx + 1], path))

\* the start of next() putting back request.url only
UntrimmedUrlOnly(s) ==
  LET url == IF s.h.slashAdded THEN SliceFrom(s.req.url, 1) ELSE s.req.url
  IN IF Len(s.h.removed) # 0
       THEN [s EXCEPT !.h.slashAdded = FALSE,
                      !.req.url = s.h.protohost \o s.h.removed
                         \o SliceFrom(url, Len(s.h.protohost)),
                      !.h.removed = <<>>]
       ELSE [s EXCEPT !.h.slashAdded = FALSE, !.req.url = url]

\* the start of next(): the slash and the prefix that trimPrefix took off
\* request.url are put back
Untrimmed(s) ==
  LET url == IF s.h.slashAdded THEN SliceFrom(s.req.url, 1) ELSE s.req.url
  IN IF Len(s.h.removed) # 0
       THEN [s EXCEPT !.h.slashAdded = FALSE,
                      !.req.baseUrl = s.h.parentUrl,
                      !.req.url = s.h.protohost \o s.h.removed
                         \o SliceFrom(url, Len(s.h.protohost)),
                      !.h.removed = <<>>]
       ELSE [s EXCEPT !.h.slashAdded = FALSE, !.req.url = url]

\* the end of next(), sc being what the loop left: without a match the
\* dispatch is done, else the layer at idx - 1 gets the request
AfterScan(sc, path) ==
  LET i == sc.s.h.idx
      layer == sc.s.stack[i]
  IN IF sc.match # "true"
       THEN Done([sc.s EXCEPT !.g.exit = "nomatch"], sc.layerError)
     ELSE processParams(
            [sc.s EXCEPT
               !.req.route = IF layer.route # 0 THEN layer.route ELSE @,
               !.req.params = IF sc.s.opts.mergeParams
                                THEN mergeParams(layer.params, sc.s.h.parentParams)
                                ELSE layer.params],
            i, sc.layerError, layer.path, path)

\* next(err) calling done with the "router" signal it got, not with null
RouterNextHandingSignalOn(s, err) ==
  LET layerError == LayerError(err)
      s2 == Untrimmed(s)
      s3 == [s2 EXCEPT !.h.sync = @ + 1]
      path == getPathname(s3.req)
  IN IF layerError = "router"
       THEN SetImmediate([s2 EXCEPT !.g.exit = "router"], "done", 0, layerError)
     ELSE IF s2.h.idx >= Len(s2.stack)
       THEN SetImmediate([s2 EXCEPT !.g.exit = "exhausted"], "done", 0, layerError)
     ELSE IF s3.h.sync > MaxSyncStack THEN SetImmediate(s3, "next", 0, err)
     ELSE IF path = Undefined THEN Done([s3 EXCEPT !.g.exit = "nopath"], layerError)
     ELSE AfterScan(Scan(s3, path, "undefined", layerError), path)

\* next(err) without `if (++sync > 100) return setImmediate(next, err)`
RouterNextWithoutDeferral(s, err) ==
  LET layerError == LayerError(err)
      s2 == Untrimmed(s)
      s3 == [s2 EXCEPT !.h.sync = @ + 1]
      path == getPathname(s3.req)
  IN IF layerError = "router"
       THEN SetImmediate([s2 EXCEPT !.g.exit = "router"], "done", 0, Null)
     ELSE IF s2.h.idx >= Len(s2.stack)
       THEN SetImmediate([s2 EXCEPT !.g.exit = "exhausted"], "done", 0, layerError)
     ELSE IF path = Undefined THEN Done([s3 EXCEPT !.g.exit = "nopath"], layerError)
     ELSE AfterScan(Scan(s3, path, "undefined", layerError), path)

\* next(err) of Router.prototype.handle; g.exit records the way the loop ends
RouterNext(s, err) ==
  LET layerError == LayerError(err)
      s2 == Untrimmed(s)
      s3 == [s2 EXCEPT !.h.sync = @ + 1]
      path == getPathname(s3.req)
  IN IF layerError = "router"
       THEN SetImmediate([s2 EXCEPT !.g.exit = "router"], "done", 0, Null)
     ELSE IF s2.h.idx >= Len(s2.stack)
       THEN SetImmediate([s2 EXCEPT !.g.exit = "exhausted"], "done", 0, layerError)
     ELSE IF s3.h.sync > MaxSyncStack THEN SetImmediate(s3, "next", 0, err)
     ELSE IF path = Undefined THEN Done([s3 EXCEPT !.g.exit = "nopath"], layerError)
     ELSE AfterScan(Scan(s3, path, "undefined", layerError), path)

\* the `while (idx < stack.length)` loop of the Route's next(): the index
\* after the loop and whether the last layer read is applicable
RouteScan(rstack, idx, method) ==
  IF idx >= Len(rstack) THEN [idx |-> idx, match |-> FALSE]
  ELSE LET layer == rstack[idx + 1]
           match == layer.method = Undef \/ layer.method = method
       IN IF match THEN [idx |-> idx + 1, match |-> TRUE]
          ELSE RouteScan(rstack, idx + 1, method)

\* next(err) of dispatch without the test for "route": the signal is handed
\* to the following layers of the Route like an error
RouteNextWithoutRouteSignal(s, i, err) ==
  LET r == s.stack[i].route
      rstack == s.routes[r].stack
      s1 == [s EXCEPT !.rd[r].sync = @ + 1]
      sc == RouteScan(rstack, s1.rd[r].idx, s1.rd[r].method)
      s2 == [s1 EXCEPT !.rd[r].idx = sc.idx]
      s3 == [s2 EXCEPT !.rd[r].unwind = TRUE]
  IN IF Truthy(err) /\ err = "router" THEN Call(s, "next", 0, err)
     ELSE IF s.rd[r].idx >= Len(rstack) THEN Call(s, "next", 0, err)
     ELSE IF s1.rd[r].sync > MaxSyncStack THEN SetImmediate(s1, "routeNext", i, err)
     ELSE IF ~sc.match THEN Call(s2, "next", 0, err)
     ELSE IF Truthy(err) THEN handleError(s3, i, sc.idx, err)
     ELSE handleRequest(s3, i, sc.idx)

\* next(err) of Route.prototype.dispatch, for the Route wrapped by layer i
RouteNext(s, i, err) ==
  LET r == s.stack[i].route
      rstack == s.routes[r].stack
      s1 == [s EXCEPT !.rd[r].sync = @ + 1]
      sc == RouteScan(rstack, s1.rd[r].idx, s1.rd[r].method)
      s2 == [s1 EXCEPT !.rd[r].idx = sc.idx]
      s3 == [s2 EXCEPT !.rd[r].unwind = TRUE]
  IN IF Truthy(err) /\ err = "route" THEN Call(s, "next", 0, Undef)
     ELSE IF Truthy(err) /\ err = "router" THEN Call(s, "next", 0, err)
     ELSE IF s.rd[r].idx >= Len(rstack) THEN Call(s, "next", 0, err)
     ELSE IF s1.rd[r].sync > MaxSyncStack THEN SetImmediate(s1, "routeNext", i, err)
     ELSE IF ~sc.match THEN Call(s2, "next", 0, err)
     ELSE IF Truthy(err) THEN handleError(s3, i, sc.idx, err)
     ELSE handleRequest(s3, i, sc.idx)

\* the synchronous code runs on from s: each next() it has reached is
\* called, until control is in the body of a handler or back in the event
\* loop
Run(s) ==
  IF s.call.fn = "next"
    THEN Run(RouterNext([s EXCEPT !.call = NoCall], s.call.arg))
  ELSE IF s.call.fn = "param"
    THEN Run(Param([s EXCEPT !.call = NoCall], s.call.arg))
  ELSE IF s.call.fn = "paramCallback"
    THEN Run(ParamCallback([s EXCEPT !.call = NoCall], s.call.arg))
  ELSE IF s.call.fn = "routeNext"
    THEN Run(RouteNext([s EXCEPT !.call = NoCall], s.call.i, s.call.arg))
  ELSE s

\* `sync = 0` in a closure of handle() and in those of the enclosing Routers
RECURSIVE Unwound(_)

UnwoundRoutes(dispatches) ==
  [r \in DOMAIN dispatches |->
     [dispatches[r] EXCEPT !.sync = IF dispatches[r].unwind THEN 0 ELSE @,
                           !.unwind = FALSE]]

Unwound(closure) ==
  [closure EXCEPT
     !.sync = IF closure.unwind THEN 0 ELSE @,
     !.unwind = FALSE,
     !.outer = IF closure.outer = <<>> THEN <<>>
               ELSE << [closure.outer[1] EXCEPT
                          !.h = Unwound(closure.outer[1].h),
                          !.rd = UnwoundRoutes(closure.outer[1].rd)] >>]

\* the call stack empties: every frame of next() that reached its `sync = 0`
\* runs it
Unwind(s) ==
  IF s.ctl.kind # "idle" THEN s
  ELSE [s EXCEPT
          !.h = Unwound(s.h),
          !.rd = UnwoundRoutes(s.rd)]

\* the variables take the values they have in s
Assigned(s) ==
  /\ opts' = s.opts
  /\ routerParams' = s.routerParams
  /\ stack' = s.stack
  /\ routes' = s.routes
  /\ req' = s.req
  /\ res' = s.res
  /\ h' = s.h
  /\ rd' = s.rd
  /\ ctl' = s.ctl
  /\ pending' = s.pending
  /\ tasks' = s.tasks
  /\ cb' = s.cb
  /\ g' = s.g
  /\ conc' = s.conc

\* the state after an action: what s has become once control is back in the
\* event loop or in the body of a handler
Becomes(s) == Assigned(Unwind(Run(s)))

\* ------------------------------------------------------------------------
\* Handlers: what the code around a handler call does with its outcome
\* ------------------------------------------------------------------------

\* a handler call outside of try/catch: what it throws reaches the caller of
\* the continuation
LayerWithoutCatch(err) == [next |-> FALSE, arg |-> err]

\* `catch (err) { next(err) }` of handleRequest and handleError: whether the
\* continuation is called for a thrown value, and with what
LayerCatch(err) == [next |-> TRUE, arg |-> err]

\* ret.then(() => next(), error => next(error)): the continuation is called
\* when the promise is fulfilled as well
PromiseReactionOnSettle(outcome, value) ==
  IF outcome = "rejected"
    THEN [next |-> TRUE, arg |-> IF value = Undef THEN RejectedPromise ELSE value]
    ELSE [next |-> TRUE, arg |-> Undef]

\* `ret.catch((error = new Error('Rejected promise')) => next(error))`:
\* whether the continuation is called when the returned promise settles, and
\* with what
PromiseReaction(outcome, value) ==
  IF outcome = "rejected"
    THEN [next |-> TRUE, arg |-> IF value = Undef THEN RejectedPromise ELSE value]
    ELSE [next |-> FALSE, arg |-> Undef]

\* v is an error for the loops: neither falsy nor a control signal
IsError(v) == Truthy(v) /\ v \notin {"route", "router"}

\* the continuation of the handler p (its layer <<i, j>> and its mode) is
\* called with v; g keeps the history:
\*   flight      the error most recently handed to a continuation, until an
\*               error-shaped handler hands over a value that is no error
\*   unconsumed  an error was handed over and no error-shaped handler has
\*               called its continuation with no argument since
\*   exited      the Routes a handler left with "route"
\*   left        a handler left the Router with "router"
Called(s, p, v) ==
  LET s1 == [s EXCEPT
        !.g.flight = IF IsError(v) THEN v
                     ELSE IF p.mode = "error" THEN Undef
                     ELSE @,
        !.g.unconsumed = IF IsError(v) THEN TRUE
                         ELSE IF p.mode = "error" /\ v = Undef THEN FALSE
                         ELSE @,
        !.g.exited = IF p.j > 0 /\ v = "route" THEN @ \cup {p.i} ELSE @,
        !.g.left = IF v = "router" THEN TRUE ELSE @]
  IN Signal(s1, p.i, p.j, v)

\* ------------------------------------------------------------------------
\* Registration calls with any arguments
\* ------------------------------------------------------------------------

\* the values handed over as handlers: functions of three and of four
\* parameters, and a value that is no function
Functions == {"fn3", "fn4"}

NoFunction == "string"

\* fn.length
Length(fn) == IF fn = "fn4" THEN 4 ELSE 3

\* `typeof fn !== 'function'` holds of some callback
SomeNoFunction(fns) == \E n \in 1..Len(fns) : fns[n] \notin Functions

\* the call throws the TypeError with this message; g.thrown is what the
\* call made last has thrown, undefined if it returned
Throws(s, message) == [s EXCEPT !.g.thrown = message]

Returns(s) == [s EXCEPT !.g.thrown = Undef]

\* callbacks.map(fn => new Layer(path, opts, fn, method)) for functions
Layers(path, end, strict, fns, method) ==
  [n \in 1..Len(fns) |-> Layer(path, end, strict, Length(fns[n]), method)]

\* use() without `if (typeof fn !== 'function') throw`: a layer is made of
\* whatever is handed over
useUnchecked(s, path, fns) ==
  IF fns = <<>> THEN Throws(s, "argument handler is required")
  ELSE Returns([s EXCEPT !.stack = @ \o Layers(path, FALSE, FALSE, fns, Undef)])

\* Router.prototype.use(path, ...callbacks): the layers are pushed once the
\* map over the callbacks has made them all
use(s, path, fns) ==
  IF fns = <<>> THEN Throws(s, "argument handler is required")
  ELSE IF SomeNoFunction(fns) THEN Throws(s, "argument handler must be a function")
  ELSE Returns([s EXCEPT !.stack = @ \o Layers(path, FALSE, FALSE, fns, Undef)])

\* Route.prototype[verb](...callbacks): the method is added before the
\* layers are made
routeVerb(s, r, verb, fns) ==
  IF fns = <<>> THEN Throws(s, "argument handler is required")
  ELSE LET s1 == [s EXCEPT !.routes[r].methods = SetAdd(@, verb)]
       IN IF SomeNoFunction(fns)
            THEN Throws(s1, "argument handler must be a function")
            ELSE Returns([s1 EXCEPT !.routes[r].stack =
                            @ \o Layers(<<"/">>, TRUE, FALSE, fns, verb)])

\* Route.prototype.all(...callbacks)
routeAll(s, r, fns) ==
  IF fns = <<>> THEN Throws(s, "argument handler is required")
  ELSE LET s1 == [s EXCEPT !.routes[r].all = TRUE]
       IN IF SomeNoFunction(fns)
            THEN Throws(s1, "argument handler must be a function")
            ELSE Returns([s1 EXCEPT !.routes[r].stack =
                            @ \o Layers(<<"/">>, TRUE, FALSE, fns, Undef)])

\* Router.prototype.route(path)
route(s, path) ==
  [s EXCEPT !.routes = Append(@, Route(path)),
            !.stack = Append(@, [Layer(path, TRUE, s.opts.strict, 3, Undef)
                                   EXCEPT !.route = Len(s.routes) + 1]),
            !.rd = Append(@, NoDispatch)]

\* Router.prototype[verb](path, ...callbacks), "all" included: this.route(path)
\* and then route[verb] on the Route it returned
routerVerb(s, path, verb, fns) ==
  IF verb = "all" THEN routeAll(route(s, path), Len(s.routes) + 1, fns)
  ELSE routeVerb(route(s, path), Len(s.routes) + 1, verb, fns)

\* a value handed over as a name that is no string
NoString == "object"

\* Router.prototype.param(name, fn)
param(s, name, fn) ==
  IF name = Undef THEN Throws(s, "argument name is required")
  ELSE IF name = NoString THEN Throws(s, "argument name must be a string")
  ELSE IF fn = Undef THEN Throws(s, "argument fn is required")
  ELSE IF fn \notin Functions THEN Throws(s, "argument fn must be a function")
  ELSE Returns([s EXCEPT !.routerParams[name] = @ + 1])

\* the state in which the registration call op is made with these arguments
Registers(op, fns, name) ==
  [State EXCEPT !.g.reg = [op |-> op, fns |-> fns, name |-> name]]

\* router.use(path, ...fns)
UseCall(path, fns) ==
  /\ Registering
  /\ Assigned(use(Registers("use", fns, Undef), path, fns))
  /\ NumLayers' <= MaxRegistered

\* route[verb](...fns) on the Route r
RouteVerbCall(r, verb, fns) ==
  /\ Registering
  /\ r \in 1..Len(routes)
  /\ Assigned(routeVerb(Registers(verb, fns, Undef), r, verb, fns))
  /\ NumLayers' <= MaxRegistered

\* route.all(...fns) on the Route r
RouteAllCall(r, fns) ==
  /\ Registering
  /\ r \in 1..Len(routes)
  /\ Assigned(routeAll(Registers("all", fns, Undef), r, fns))
  /\ NumLayers' <= MaxRegistered

\* router[verb](path, ...fns)
RouterVerbCall(path, verb, fns) ==
  /\ Registering
  /\ Assigned(routerVerb(Registers("router." \o verb, fns, Undef), path, verb, fns))
  /\ NumLayers' <= MaxRegistered

\* router.param(name, fn)
ParamCall(name, fn) ==
  /\ Registering
  /\ name \in ParamNames => routerParams[name] < MaxParamCallbacks
  /\ Assigned(param(Registers("param", <<fn>>, name), name, fn))

\* ------------------------------------------------------------------------
\* Actions of a dispatch
\* ------------------------------------------------------------------------

\* the request the caller hands to handle()
Passed(method, url, entry) ==
  [ url |-> url, method |-> method, baseUrl |-> entry.baseUrl,
    params |-> entry.params, next |-> entry.next, route |-> 0,
    originalUrl |-> Undefined ]

\* handle() testing `!callback` behind its setup of the request: req.next,
\* req.baseUrl and req.originalUrl are assigned before it throws
MissingCallbackAfterSetup(s) ==
  [s EXCEPT !.req.next = "next",
            !.req.baseUrl = IF @ = Undefined THEN <<>> ELSE @,
            !.req.originalUrl = IF @ = Undefined THEN s.req.url ELSE @,
            !.g.thrown = "argument callback is required"]

\* `if (!callback) throw new TypeError('argument callback is required')`,
\* the first statement of handle(); g.thrown is what the call has thrown
MissingCallback(s) == [s EXCEPT !.g.thrown = "argument callback is required"]

\* router.handle(req, res) without a callback
HandleWithoutCallback(method, url, entry) ==
  /\ Registering
  /\ Assigned(MissingCallback(
       [State EXCEPT !.req = Passed(method, url, entry), !.g.entry = entry]))

\* router.handle(req, res, callback) with a callback, on a request whose
\* fields the caller set
Handle(method, url, entry) ==
  /\ Registering
  /\ LET parentUrl == IF entry.baseUrl = Undefined THEN <<>> ELSE entry.baseUrl
         s == [State EXCEPT
                 !.req = [ url |-> url, method |-> method,
                           baseUrl |-> parentUrl, params |-> entry.params,
                           next |-> "next", route |-> 0,
                           originalUrl |-> url ],
                 !.h = Closure(method, url, entry),
                 !.g.entry = entry]
     IN Becomes(Call(s, "next", 0, Undef))

InHandler == ctl.kind = "handler"

\* the state when the running handler's body hands control back
Leaving == [State EXCEPT !.ctl = Idle]

\* the handler as an entry of `pending`
Pending(kind) == [i |-> ctl.i, j |-> ctl.j, mode |-> ctl.mode, kind |-> kind]

\* the handler calls its continuation with v, synchronously, and returns
CallNext(v) ==
  /\ InHandler
  /\ Becomes(Called(Leaving, ctl, v))

\* the handler throws v
Throw(v) ==
  /\ InHandler
  /\ LET c == LayerCatch(v)
     IN Becomes(IF c.next THEN Called(Leaving, ctl, c.arg)
                ELSE [Leaving EXCEPT !.g.escaped = TRUE])

\* the handler returns a promise without having called its continuation
ReturnPromise ==
  /\ InHandler
  /\ Becomes([Leaving EXCEPT !.pending = @ \cup {Pending("promise")}])

\* the handler returns and will call its continuation from a later turn
ReturnLater ==
  /\ InHandler
  /\ Becomes([Leaving EXCEPT !.pending = @ \cup {Pending("later")}])

\* the handler returns for good without calling its continuation
Return ==
  /\ InHandler
  /\ Becomes([Leaving EXCEPT !.g.silent = "returned"])

\* the handler writes the response: res.end()
EndResponse ==
  /\ InHandler
  /\ ~res.headersSent
  /\ res' = [res EXCEPT !.headersSent = TRUE]
  /\ UNCHANGED <<opts, routerParams, stack, routes, req, h, rd, ctl, pending, tasks, cb, g, conc>>

\* the handler assigns request.url
RewriteUrl(url) ==
  /\ InHandler
  /\ g.rewrites < MaxRewrites
  /\ url # req.url
  /\ req' = [req EXCEPT !.url = url]
  /\ g' = [g EXCEPT !.rewrites = @ + 1, !.rewriteAt = g.ninv]
  /\ UNCHANGED <<opts, routerParams, stack, routes, res, h, rd, ctl, pending, tasks, cb, conc>>

\* the handler assigns request.method
RewriteMethod(method) ==
  /\ InHandler
  /\ g.rewrites < MaxRewrites
  /\ method # req.method
  /\ req' = [req EXCEPT !.method = method]
  /\ g' = [g EXCEPT !.rewrites = @ + 1, !.rewriteAt = g.ninv]
  /\ UNCHANGED <<opts, routerParams, stack, routes, res, h, rd, ctl, pending, tasks, cb, conc>>

InParam == ctl.kind = "param"

AtIdle == h.started /\ ctl.kind = "idle"

\* paramCallback, the continuation of the running parameter callback, is
\* called with v; g keeps the history:
\*   pleft  per key, request.params[key] as the callback that last called
\*          its continuation left it
\*   plog   gets an "error" event when v is an error
ParamContinued(s, v) ==
  Call([s EXCEPT
          !.g.pleft[s.h.pp.key] = Get(s.req.params, s.h.pp.key),
          !.g.plog = IF IsError(v)
                       THEN Append(@, ParamEvent("error", s, s.h.pp.paramIndex))
                       ELSE @],
       "paramCallback", 0, v)

\* the parameter callback calls its continuation with v, synchronously, and
\* returns
ParamNext(v) ==
  /\ InParam
  /\ Becomes(ParamContinued(Leaving, v))

\* `catch (e) { paramCallback(e) }` of paramCallback: whether the
\* continuation is called for a thrown value, and with what
ParamCatch(err) == [next |-> TRUE, arg |-> err]

\* the parameter callback throws v
ParamThrow(v) ==
  /\ InParam
  /\ LET c == ParamCatch(v)
     IN Becomes(IF c.next THEN ParamContinued(Leaving, c.arg)
                ELSE [Leaving EXCEPT !.g.escaped = TRUE])

\* the parameter callback returns a promise without having called its
\* continuation
ParamReturnPromise ==
  /\ InParam
  /\ Becomes([Leaving EXCEPT !.pending = @ \cup {Pending("param")}])

\* `ret.catch((error = new Error('Rejected promise')) => paramCallback(error))`:
\* what the continuation gets when the promise is rejected with `value`
ParamPromiseRejected(value) == IF value = Undef THEN RejectedPromise ELSE value

\* the promise a parameter callback returned is rejected with v
ParamPromiseReject(p, v) ==
  /\ AtIdle
  /\ p \in pending /\ p.kind = "param"
  /\ Becomes(ParamContinued([State EXCEPT !.pending = @ \ {p}],
                            ParamPromiseRejected(v)))

\* the parameter callback assigns request.params[key]
ParamSet(val) ==
  /\ InParam
  /\ g.rewrites < MaxRewrites
  /\ Get(req.params, h.pp.key) # val
  /\ req' = [req EXCEPT !.params = Put(@, h.pp.key, val)]
  /\ g' = [g EXCEPT !.rewrites = @ + 1]
  /\ UNCHANGED <<opts, routerParams, stack, routes, res, h, rd, ctl, pending, tasks, cb, conc>>

\* a handler that returned earlier calls its continuation with v
AsyncNext(p, v) ==
  /\ AtIdle
  /\ p \in pending /\ p.kind = "later"
  /\ Becomes(Called([State EXCEPT !.pending = @ \ {p}], p, v))

\* the promise a handler returned is rejected with v
PromiseReject(p, v) ==
  /\ AtIdle
  /\ p \in pending /\ p.kind = "promise"
  /\ LET outcome == "rejected"
         c == PromiseReaction(outcome, v)
         s == [State EXCEPT !.pending = @ \ {p}]
     IN Becomes(IF c.next THEN Called(s, p, c.arg)
                ELSE [s EXCEPT !.g.silent = outcome])

\* the handler calls its continuation with v and returns a promise (an async
\* function that goes on after next()): the entry "advanced" of `pending`
CallNextReturningPromise(v) ==
  /\ InHandler
  /\ Becomes(Called([Leaving EXCEPT !.pending = @ \cup {Pending("advanced")}], ctl, v))

\* the promise of a handler that had called its continuation is rejected
\* with v: the reaction `ret.catch(error => next(error))` runs
RejectLate(p, v) ==
  /\ AtIdle
  /\ p \in pending /\ p.kind = "advanced"
  /\ LET c == PromiseReaction("rejected", v)
         s == [State EXCEPT !.pending = @ \ {p}]
     IN Becomes(IF c.next THEN Called(s, p, c.arg)
                ELSE [s EXCEPT !.g.silent = "rejected"])

\* the promise a handler returned is fulfilled
PromiseResolve(p) ==
  /\ AtIdle
  /\ p \in pending /\ p.kind = "promise"
  /\ LET outcome == "fulfilled"
         c == PromiseReaction(outcome, Undef)
         s == [State EXCEPT !.pending = @ \ {p}]
     IN Becomes(IF c.next THEN Called(s, p, c.arg)
                ELSE [s EXCEPT !.g.silent = outcome])

\* the event loop runs the oldest setImmediate callback
RunTask ==
  /\ AtIdle
  /\ tasks # <<>>
  /\ LET t == Head(tasks)
         s == [State EXCEPT !.tasks = Tail(tasks)]
     IN Becomes(CASE t.fn = "done" -> Done(s, t.arg)
                  [] t.fn = "next" -> Call(s, "next", 0, t.arg)
                  [] t.fn = "routeNext" -> Call(s, "routeNext", t.i, t.arg))

\* ------------------------------------------------------------------------
\* Specifications
\* ------------------------------------------------------------------------

Registration ==
  \/ \E p \in UsePaths, a \in Arities : Use(p, a)
  \/ \E p \in RoutePaths : RouterRoute(p)
  \/ \E r \in 1..MaxLayers, v \in Verbs, a \in Arities : RouteVerb(r, v, a)
  \/ \E r \in 1..MaxLayers, a \in Arities : RouteAll(r, a)

\* a dispatch whose handlers answer before they return
SyncDispatch ==
  \/ \E q \in Requests : Handle(q.method, q.url, EntryReq)
  \/ \E v \in NextArgs : CallNext(v)
  \/ \E v \in Thrown : Throw(v)
  \/ Return
  \/ RunTask

\* handlers that return a promise, or call their continuation in a later turn
Deferred ==
  \/ ReturnPromise
  \/ ReturnLater
  \/ \E p \in pending, v \in NextArgs : AsyncNext(p, v)
  \/ \E p \in pending, v \in Thrown : PromiseReject(p, v)
  \/ \E p \in pending : PromiseResolve(p)

\* handlers call their continuation at most once, now or later; the handlers
\* of an OPTIONS dispatch, the one in which the Router itself writes to the
\* response, may finish the response
Next ==
  \/ Registration
  \/ SyncDispatch
  \/ Deferred
  \/ h.methods # Undefined /\ EndResponse

Spec == Init /\ [][Next]_vars

\* the methods and urls a handler assigns to the request
RewriteMethods == {"GET", "POST"}

RewriteUrls == {<<"/", "a">>, <<"/", "a", "/", "b">>}

\* handlers that are not error-shaped call their continuation before they
\* return and may first assign request.url or request.method
NextRewrite ==
  \/ Use(<<"/">>, 3)
  \/ \E p \in RoutePaths : RouterRoute(p)
  \/ \E r \in 1..MaxLayers, v \in Verbs : RouteVerb(r, v, 3)
  \/ \E r \in 1..MaxLayers : RouteAll(r, 3)
  \/ \E q \in Requests : Handle(q.method, q.url, EntryReq)
  \/ \E v \in NextArgs : CallNext(v)
  \/ RunTask
  \/ \E u \in RewriteUrls : RewriteUrl(u)
  \/ \E m \in RewriteMethods : RewriteMethod(m)

SpecRewrite == Init /\ [][NextRewrite]_vars

\* middleware mounted under a prefix, on a request that comes from a parent
\* router or from the server; handlers answer before they return
NextPrefix ==
  \/ \E p \in PrefixPaths, a \in Arities : Use(p, a)
  \/ \E p \in RoutePaths : RouterRoute(p)
  \/ \E r \in 1..MaxLayers, v \in Verbs : RouteVerb(r, v, 3)
  \/ \E q \in PrefixRequests, e \in {EntryReq, FreshReq} :
       Handle(q.method, q.url, e)
  \/ \E v \in NextArgs : CallNext(v)
  \/ RunTask

SpecPrefix == Init /\ [][NextPrefix]_vars

\* urls in origin form and in absolute form
TrimUrls ==
  { <<"/", "a", "/", "b">>, <<"/", "a">>, <<"/", "a", "/">>,
    <<"h", ":", "/", "/", "h", "/", "a", "/", "b">>,
    <<"h", ":", "/", "/", "h", "/", "a">> }

\* middleware and error middleware mounted under "/" and under a prefix;
\* handlers answer before they return
NextTrim ==
  \/ \E p \in PrefixPaths, a \in Arities : Use(p, a)
  \/ \E url \in TrimUrls, e \in {EntryReq, FreshReq} : Handle("GET", url, e)
  \/ \E v \in {Undef} \cup Errors : CallNext(v)
  \/ RunTask

SpecTrim == Init /\ [][NextTrim]_vars

\* handlers of every shape, as middleware and inside Routes; they answer
\* before they return
NextArity ==
  \/ \E a \in ArityRange : Use(<<"/">>, a)
  \/ \E p \in RoutePaths : RouterRoute(p)
  \/ \E r \in 1..MaxLayers, v \in Verbs, a \in ArityRange : RouteVerb(r, v, a)
  \/ Handle("GET", <<"/", "a">>, EntryReq)
  \/ \E v \in NextArgs : CallNext(v)
  \/ RunTask

SpecArity == Init /\ [][NextArity]_vars

\* the verbs of the Routes that take HEAD requests, and the methods of the
\* requests
HeadVerbs == {"GET", "HEAD"}

\* Routes with handlers under GET, under HEAD and under all methods, on GET
\* and HEAD requests; handlers answer before they return
NextHead ==
  \/ \E p \in RoutePaths : RouterRoute(p)
  \/ \E r \in 1..MaxLayers, v \in HeadVerbs : RouteVerb(r, v, 3)
  \/ \E r \in 1..MaxLayers : RouteAll(r, 3)
  \/ \E m \in HeadVerbs : Handle(m, <<"/", "a">>, EntryReq)
  \/ \E v \in NextArgs : CallNext(v)
  \/ RunTask

SpecHead == Init /\ [][NextHead]_vars

\* the verbs of the Routes an OPTIONS request is dispatched to
OptionsVerbs == {"GET", "POST", "OPTIONS"}

\* the paths of those Routes: the request's, and another
OptionsPaths == {<<"/", "a">>, <<"/", "b">>}

\* the paths of the middleware: one the request is under, and another
OptionsUsePaths == {<<"/">>, <<"/", "b">>}

\* middleware and Routes with handlers under GET, POST and OPTIONS, on an
\* OPTIONS request; handlers answer before they return
NextOptions ==
  \/ \E p \in OptionsUsePaths, a \in Arities : Use(p, a)
  \/ \E p \in OptionsPaths : RouterRoute(p)
  \/ \E r \in 1..MaxLayers, v \in OptionsVerbs : RouteVerb(r, v, 3)
  \/ Handle("OPTIONS", <<"/", "a">>, FreshReq)
  \/ \E v \in {Undef} \cup Errors : CallNext(v)
  \/ RunTask

SpecOptions == Init /\ [][NextOptions]_vars

\* the layers a chain has beyond the threshold of the sync stack
ExtraLayers == 2

DeepLayers == MaxSyncStack + ExtraLayers

\* the chains: the layers are middleware of the Router, or handlers of one
\* Route of the Router
SyncShapes == {"router", "route"}

\* a chain of DeepLayers handlers, the first a request handler and the
\* others of arity a, registered with use, or with get on one Route
DeepChain(shape, a) ==
  LET chain(end, method) ==
        [k \in 1..DeepLayers |->
           Layer(<<"/">>, end, FALSE, IF k = 1 THEN 3 ELSE a, method)]
  IN /\ stack = IF shape = "router" THEN chain(FALSE, Undef)
                ELSE << [Layer(<<"/", "a">>, TRUE, opts.strict, 3, Undef)
                           EXCEPT !.route = 1] >>
     /\ routes = IF shape = "router" THEN <<>>
                 ELSE << [Route(<<"/", "a">>) EXCEPT
                            !.methods = <<"GET">>, !.stack = chain(TRUE, "GET")] >>
     /\ rd = IF shape = "router" THEN <<>> ELSE <<NoDispatch>>

\* a Router with a chain of more layers than the sync stack allows
InitSync ==
  /\ NotStarted
  /\ \E shape \in SyncShapes, a \in Arities : DeepChain(shape, a)

\* the chain the handler that is running belongs to
Chain == IF ctl.j = 0 THEN stack ELSE routes[stack[ctl.i].route].stack

\* the place of that handler in its chain
Place == IF ctl.j = 0 THEN ctl.i ELSE ctl.j

\* v is what the handler behind the running one takes: an error for an
\* error handler, no argument for a request handler
Taken(v) ==
  Place < Len(Chain) => (Chain[Place + 1].arity = 4 <=> v # Undef)

\* the handler calls its continuation, before it returns, with what the
\* handler behind it takes
HandOn(v) == InHandler /\ Taken(v) /\ CallNext(v)

\* every handler of the chain hands on before it returns
NextSync ==
  \/ Handle("GET", <<"/", "a">>, FreshReq)
  \/ \E v \in {Undef} \cup Errors : HandOn(v)
  \/ RunTask

SpecSync == InitSync /\ [][NextSync]_vars

\* the urls of the requests with a parameter to decode: the second one
\* holds an escape that is none
DecodeUrls == {<<"/", "x">>, <<"/", "%">>}

\* middleware and Routes, some capturing a parameter, on requests whose
\* parameter can and cannot be decoded; handlers answer before they return
NextDecode ==
  \/ \E p \in {<<"/">>, <<"/", ":k">>}, a \in Arities : Use(p, a)
  \/ RouterRoute(<<"/", ":k">>)
  \/ \E r \in 1..MaxLayers : RouteVerb(r, "GET", 3)
  \/ \E url \in DecodeUrls : Handle("GET", url, FreshReq)
  \/ \E v \in {Undef} \cup Errors : CallNext(v)
  \/ RunTask

SpecDecode == Init /\ [][NextDecode]_vars

\* the keys of params objects: array indices for the unnamed groups of a
\* regular expression, and a name
MergeKeys == <<Key(0), Key(1), Key(2), Key(3), Key(4), Key(5)>>

\* the object that holds, under each of `keys`, a value that names its
\* origin and that key
ParamsOf(origin, keys) ==
  LET held == SelectSeq(Append(SubSeq(MergeKeys, 1, MaxKeys), "k"),
                        LAMBDA key : key \in keys)
  IN [n \in 1..Len(held) |-> <<held[n], origin \o held[n]>>]

\* the sets of keys drawn: a group that did not take part in the match
\* leaves no key
KeySets == SUBSET ({Key(n) : n \in 0..(MaxKeys - 1)} \cup {"k"})

\* next() has matched the first layer of the Router, whose params are the
\* layer's own, and request.params are still the parent's
InitMerge ==
  /\ conc = Unshared
  /\ routerParams = [name \in ParamNames |-> 0]
  /\ routes = <<>>
  /\ rd = <<>>
  /\ res = [headersSent |-> FALSE, allow |-> Undefined]
  /\ pending = {}
  /\ tasks = <<>>
  /\ ctl = [Idle EXCEPT !.kind = "matched", !.i = 1]
  /\ cb = [ count |-> 0, arg |-> Undef, baseUrl |-> Undefined,
            params |-> UndefinedObject, next |-> "undefined" ]
  /\ \E merge \in BOOLEAN, own \in KeySets,
        parent \in {UndefinedObject} \cup {ParamsOf("parent", keys) : keys \in KeySets} :
       /\ opts = [caseSensitive |-> FALSE, mergeParams |-> merge, strict |-> FALSE]
       /\ stack = << [Layer(<<"/", "a">>, FALSE, FALSE, 3, Undef) EXCEPT
                        !.params = ParamsOf("own", own),
                        !.keys = [n \in 1..Len(ParamsOf("own", own)) |->
                                    ParamsOf("own", own)[n][1]],
                        !.path = <<"/", "a">>] >>
       /\ req = [ url |-> <<"/", "a">>, method |-> "GET", baseUrl |-> <<>>,
                  params |-> parent, next |-> "next", route |-> 0,
                  originalUrl |-> <<"/", "a">> ]
       /\ h = [ started |-> TRUE, idx |-> 1, methods |-> Undefined,
                protohost |-> <<>>, removed |-> <<>>, slashAdded |-> FALSE,
                sync |-> 1, unwind |-> FALSE,
                parentParams |-> parent, parentUrl |-> <<>>,
                paramcalled |-> [name \in ParamNames |-> NotCalled], pp |-> NoParams,
                saved |-> [baseUrl |-> Undefined, params |-> parent,
                           next |-> "undefined"],
                outer |-> <<>> ]
       /\ g = [ ninv |-> 0, last |-> <<0, 0>>, rewrites |-> 0,
                silent |-> "no", escaped |-> FALSE, left |-> FALSE,
                flight |-> Undef, unconsumed |-> FALSE, exited |-> {},
                exit |-> "none",
                entry |-> [baseUrl |-> Undefined, params |-> parent,
                           next |-> "undefined"],
                rewriteAt |-> 0,
                plog |-> <<>>, pleft |-> [name \in ParamNames |-> Undef],
           thrown |-> Undef, reg |-> NoRegistration ]

\* `req.params = self.mergeParams ? mergeParams(layer.params, parentParams)
\* : layer.params` of next(), for the layer it has matched
Merge ==
  /\ ctl.kind = "matched"
  /\ req' = [req EXCEPT !.params =
               IF opts.mergeParams
                 THEN mergeParams(stack[ctl.i].params, h.parentParams)
                 ELSE stack[ctl.i].params]
  /\ stack' = [stack EXCEPT ![ctl.i].params =
                 IF opts.mergeParams THEN Offsetted(@, h.parentParams) ELSE @]
  /\ ctl' = [ctl EXCEPT !.kind = "merged"]
  /\ UNCHANGED <<opts, routerParams, routes, res, h, rd, pending, tasks, cb, g, conc>>

SpecMerge == InitMerge /\ [][Merge]_vars

\* a Router with middleware and Routes that is called with and without a
\* final callback; handlers answer before they return
NextUsage ==
  \/ \E p \in PrefixPaths, a \in Arities : Use(p, a)
  \/ \E p \in RoutePaths : RouterRoute(p)
  \/ \E r \in 1..MaxLayers : RouteVerb(r, "GET", 3)
  \/ \E q \in Requests, e \in {EntryReq, FreshReq} :
       HandleWithoutCallback(q.method, q.url, e)
  \/ \E q \in Requests, e \in {EntryReq, FreshReq} : Handle(q.method, q.url, e)
  \/ \E v \in {Undef} \cup Errors : CallNext(v)
  \/ RunTask

SpecUsage == Init /\ [][NextUsage]_vars

\* the argument lists of the registration calls: none, a function, a value
\* that is no function, and such a value behind a function
CallbackLists == { <<>>, <<"fn3">>, <<NoFunction>>, <<"fn4", NoFunction>> }

\* registration calls with valid and invalid arguments, and dispatches of a
\* GET request
NextRegister ==
  \/ \E fns \in CallbackLists : UseCall(<<"/">>, fns)
  \/ \E r \in 1..MaxRegistered, fns \in CallbackLists : RouteVerbCall(r, "GET", fns)
  \/ \E r \in 1..MaxRegistered, fns \in CallbackLists : RouteAllCall(r, fns)
  \/ \E v \in {"POST", "all"}, fns \in CallbackLists :
       RouterVerbCall(<<"/", "a">>, v, fns)
  \/ \E name \in {Undef, NoString, "k"}, fn \in {Undef, NoFunction, "fn4"} :
       ParamCall(name, fn)
  \/ Handle("GET", <<"/", "a">>, FreshReq)
  \/ CallNext(Undef)
  \/ RunTask

SpecRegister == Init /\ [][NextRegister]_vars

\* middleware under regular expressions and under "/", and the urls of the
\* requests: the expressions find their source at the start of the path
\* before a "/", at its start before another character, and further on
RegExpPaths == {RegExp(<<"/", "a">>), RegExp(<<"b">>), <<"/">>}

RegExpUrls ==
  { <<"/", "a">>, <<"/", "a", "/", "b">>, <<"/", "a", "b">>, <<"/", "c", "/", "b">> }

NextRegExp ==
  \/ \E p \in RegExpPaths, a \in Arities : Use(p, a)
  \/ \E url \in RegExpUrls : Handle("GET", url, FreshReq)
  \/ \E v \in {Undef} \cup Errors : CallNext(v)
  \/ RunTask

SpecRegExp == Init /\ [][NextRegExp]_vars

\* handlers that call their continuation and return a promise that is
\* rejected afterwards, or return without calling it
NextLate ==
  \/ \E a \in Arities : Use(<<"/">>, a)
  \/ Handle("GET", <<"/", "a">>, FreshReq)
  \/ \E v \in {Undef} \cup Errors : CallNext(v)
  \/ CallNextReturningPromise(Undef)
  \/ Return
  \/ \E p \in pending, v \in {Undef} \cup Errors : RejectLate(p, v)
  \/ RunTask

SpecLate == Init /\ [][NextLate]_vars

\* Routers mounted in one another, two deep: where they are, and the
\* prefixes they and their middleware are mounted under
Routers == {<<>>, <<1>>, <<1, 1>>}

MountPaths == {<<"/", "a">>, <<"/", "b">>}

NextNested ==
  \/ \E w \in Routers, p \in MountPaths : MountOn(w, p)
  \/ \E w \in Routers, p \in {<<"/">>, <<"/", "b">>}, a \in Arities : UseOn(w, p, a)
  \/ Handle("GET", <<"/", "a", "/", "b">>, FreshReq)
  \/ \E v \in {Undef, "router"} \cup Errors : CallNext(v)
  \/ RunTask

SpecNested == Init /\ [][NextNested]_vars

\* ------------------------------------------------------------------------
\* Two dispatches in flight through the same Router
\* ------------------------------------------------------------------------

\* a layer as new Layer() leaves it: nothing has been matched against it
Unmatched(layer) ==
  [layer EXCEPT !.keys = <<>>, !.params = UndefinedObject, !.path = Undefined]

\* the dispatch the variables describe, and that dispatch as it runs on
\* layers of its own
Described == [State EXCEPT !.conc = Unshared]

Solo == IF Len(conc.solo) = 0 THEN Described ELSE conc.solo[1]

\* what a dispatch owns are the request, the response and what the calls
\* of handle() and of dispatch() close over; the layers are the Router's
Alike(a, b) ==
  /\ a.req = b.req /\ a.res = b.res
  /\ a.h = b.h /\ a.rd = b.rd
  /\ a.ctl = b.ctl /\ a.pending = b.pending /\ a.tasks = b.tasks
  /\ a.cb = b.cb /\ a.g = b.g

\* one step F of the described dispatch, taken on the Router's layers and
\* on layers of its own
Both(F(_)) ==
  LET shared == Unwind(Run(F(State)))
      solo == IF Alike(Described, Solo) THEN Unwind(Run(F(Solo))) ELSE Solo
  IN Assigned([shared EXCEPT !.conc.solo = <<solo>>])

\* the handler or parameter callback that runs in s as an entry of `pending`
PendingIn(s, kind) ==
  [i |-> s.ctl.i, j |-> s.ctl.j, mode |-> s.ctl.mode, kind |-> kind]

\* handle() is called for a second request while the dispatch of the first
\* rests in the event loop
HandleInFlight(method, url) ==
  /\ AtIdle
  /\ Len(conc.other) = 0
  /\ LET s == [State EXCEPT
                 !.req = [ url |-> url, method |-> method,
                           baseUrl |-> <<>>, params |-> FreshReq.params,
                           next |-> "next", route |-> 0,
                           originalUrl |-> url ],
                 !.res = NoResponse,
                 !.h = Closure(method, url, FreshReq),
                 !.rd = [k \in 1..Len(routes) |-> NoDispatch],
                 !.pending = {},
                 !.tasks = <<>>,
                 !.cb = NoCallback,
                 !.g = NoHistory,
                 !.conc = Unshared]
         alone == [s EXCEPT !.stack = [n \in 1..Len(stack) |-> Unmatched(stack[n])]]
         shared == Unwind(Run(Call(s, "next", 0, Undef)))
         solo == Unwind(Run(Call(alone, "next", 0, Undef)))
     IN Assigned([shared EXCEPT
                    !.conc = [ other |-> <<[shared |-> Described, solo |-> Solo]>>,
                               solo |-> <<solo>> ]])

\* the event loop turns to the other dispatch in flight
Switch ==
  /\ AtIdle
  /\ Len(conc.other) # 0
  /\ LET o == conc.other[1]
     IN Assigned([o.shared EXCEPT
                    !.stack = stack,
                    !.conc = [ other |-> <<[shared |-> Described, solo |-> Solo]>>,
                               solo |-> <<o.solo>> ]])

\* the handler calls its continuation with v, synchronously, and returns
NextOfOne(v) ==
  /\ InHandler
  /\ Both(LAMBDA s : Called([s EXCEPT !.ctl = Idle], s.ctl, v))

\* the handler returns and will call its continuation from a later turn
LaterOfOne ==
  /\ InHandler
  /\ Both(LAMBDA s : [s EXCEPT !.ctl = Idle,
                               !.pending = @ \cup {PendingIn(s, "later")}])

\* a handler that returned earlier calls its continuation with v
AsyncNextOfOne(p, v) ==
  /\ AtIdle
  /\ p \in pending /\ p.kind = "later"
  /\ Both(LAMBDA s : Called([s EXCEPT !.pending = @ \ {p}], p, v))

\* the parameter callback calls its continuation with v, synchronously
ParamNextOfOne(v) ==
  /\ InParam
  /\ Both(LAMBDA s : ParamContinued([s EXCEPT !.ctl = Idle], v))

\* the parameter callback returns and will call its continuation from a
\* later turn
ParamLaterOfOne ==
  /\ InParam
  /\ Both(LAMBDA s : [s EXCEPT !.ctl = Idle,
                               !.pending = @ \cup {PendingIn(s, "paramLater")}])

\* a parameter callback that returned earlier calls its continuation with v
ParamAsyncNextOfOne(p, v) ==
  /\ AtIdle
  /\ p \in pending /\ p.kind = "paramLater"
  /\ Both(LAMBDA s : ParamContinued([s EXCEPT !.pending = @ \ {p}], v))

\* the event loop runs the next setImmediate task of the described dispatch
RunTaskOfOne ==
  /\ AtIdle
  /\ tasks # <<>>
  /\ Both(LAMBDA s :
            LET t == Head(s.tasks)
                s1 == [s EXCEPT !.tasks = Tail(@)]
            IN CASE t.fn = "done" -> Done(s1, t.arg)
                 [] t.fn = "next" -> Call(s1, "next", 0, t.arg)
                 [] t.fn = "routeNext" -> Call(s1, "routeNext", t.i, t.arg))

\* layers with a parameter and without, and two requests whose paths give
\* the parameter different values
SharedPaths == {<<"/">>, <<"/", ":k">>}

SharedUrls == {<<"/", "a">>, <<"/", "b", "/", "a">>}

NextShared ==
  \/ RouterParam("k")
  \/ \E p \in SharedPaths : Len(stack) < MaxRegistered /\ Use(p, 3)
  \/ \E path \in SharedUrls : Handle("GET", path, FreshReq)
  \/ \E path \in SharedUrls : HandleInFlight("GET", path)
  \/ Switch
  \/ NextOfOne(Undef)
  \/ LaterOfOne
  \/ \E p \in pending : AsyncNextOfOne(p, Undef)
  \/ ParamNextOfOne(Undef)
  \/ ParamLaterOfOne
  \/ \E p \in pending : ParamAsyncNextOfOne(p, Undef)
  \/ RunTaskOfOne

SpecShared == Init /\ [][NextShared]_vars

\* templates of middleware that capture parameters
ParamUsePaths == {<<"/", ":k">>, <<"/", ":m", "/", ":k">>}

\* what a parameter callback assigns to request.params[key]
ParamValues == {"x"}

\* what a parameter callback hands to its continuation: nothing, or an error
ParamArgs == {Undef} \cup Errors

\* parameter callbacks registered with router.param(); the handlers call
\* their continuation without an argument or with an error
NextParam ==
  \/ \E name \in ParamNames : RouterParam(name)
  \/ \E p \in ParamUsePaths : Use(p, 3)
  \/ Handle("GET", <<"/", "a", "/", "b">>, FreshReq)
  \/ \E v \in ParamArgs : ParamNext(v)
  \/ \E val \in ParamValues : ParamSet(val)
  \/ CallNext(Undef)
  \/ RunTask

SpecParam == Init /\ [][NextParam]_vars

\* the error value parameter callbacks raise
ParamErrors == {"E2"}

\* templates of the middleware of a Router whose parameter callbacks fail
\* or leave the layer
SignalPaths == {<<"/">>, <<"/", ":m", "/", ":k">>}

\* parameter callbacks that continue, hand "route" or an error to their
\* continuation, throw, or return a promise that is rejected; handlers and
\* error handlers that continue or raise an error
NextSignal ==
  \/ \E name \in ParamNames : RouterParam(name)
  \/ \E p \in SignalPaths : Use(p, 3)
  \/ Use(<<"/">>, 4)
  \/ Handle("GET", <<"/", "a", "/", "b">>, FreshReq)
  \/ \E v \in {Undef, "route"} \cup ParamErrors : ParamNext(v)
  \/ \E v \in {Undef} \cup ParamErrors : ParamThrow(v)
  \/ ParamReturnPromise
  \/ \E p \in pending, v \in {Undef} \cup ParamErrors : ParamPromiseReject(p, v)
  \/ \E v \in {Undef} \cup Errors : CallNext(v)
  \/ RunTask

SpecSignal == Init /\ [][NextSignal]_vars

\* handlers and error-shaped handlers under templates with and without
\* parameters; the callbacks of the parameter k continue, or hand "route" or
\* an error to their continuation
NextErrorParam ==
  \/ RouterParam("k")
  \/ \E p \in SignalPaths, a \in Arities : Use(p, a)
  \/ Handle("GET", <<"/", "a", "/", "b">>, FreshReq)
  \/ \E v \in {Undef, "route"} \cup ParamErrors : ParamNext(v)
  \/ \E v \in {Undef} \cup Errors : CallNext(v)
  \/ RunTask

SpecErrorParam == Init /\ [][NextErrorParam]_vars

\* ------------------------------------------------------------------------
\* Properties
\* ------------------------------------------------------------------------

\* the dispatch has come to rest and every handler it invoked has called its
\* continuation
Quiescent ==
  /\ h.started
  /\ ctl.kind = "idle"
  /\ tasks = <<>>
  /\ pending = {}
  /\ g.silent = "no"

\* the automatic OPTIONS response has been written
OptionsAnswered == res.allow # Undefined

CallbackSeesEntryValues ==
  cb.count > 0 =>
    /\ cb.baseUrl = g.entry.baseUrl
    /\ cb.params = g.entry.params
    /\ cb.next = g.entry.next

\* the callback ran after a middleware mounted under a prefix had been
\* invoked with the prefix moved from request.url to request.baseUrl
CallbackAfterPrefixHandler ==
  /\ cb.count = 1
  /\ g.ninv > 0
  /\ g.last[1] > 0
  /\ g.last[2] = 0
  /\ stack[g.last[1]].route = 0
  /\ stack[g.last[1]].tmpl = <<"/", "a">>

\* a handler function is invoked in this step
InvokedStep == g'.ninv # g.ninv

\* position a comes before position b: <<i, 0>> is layer i of the Router's
\* stack, <<i, j>> layer j of the Route that layer i wraps
Before(a, b) == a[1] < b[1] \/ (a[1] = b[1] /\ a[2] < b[2])

\* the handler invoked in this step belongs to a Route that the handler
\* running before the step belongs to as well
SameRouteStep == ctl.kind = "handler" /\ ctl.j > 0 /\ ctl'.j > 0 /\ ctl'.i = ctl.i

\* the layer of the Router's stack at i is applicable to the request r, whose
\* url has no query string
StackLayerApplies(i, r) ==
  /\ r.url # Undefined
  /\ PatternMatches(stack[i].tmpl, stack[i].end, stack[i].strict, r.url)
  /\ stack[i].route # 0 => HandlesMethod(routes[stack[i].route], r.method)

\* the handlers are invoked one per step, each at a position after the one
\* invoked before it
InRegistrationOrder ==
  /\ g'.ninv = g.ninv + 1
  /\ g'.last = <<ctl'.i, ctl'.j>>
  /\ Before(g.last, g'.last)

\* C3, as stated: handlers are invoked in registration order, no layer
\* twice, and every layer invoked, of the Router or inside a Route, is
\* applicable to request.url and request.method as they are at that moment,
\* rewritten or not.
OrderedAndMatchedAgainstCurrent ==
  [][InvokedStep =>
       /\ InRegistrationOrder
       /\ StackLayerApplies(ctl'.i, req')
       /\ ctl'.j > 0 =>
            LayerAt(State, ctl'.i, ctl'.j).method \in {Undef, req'.method}]_vars

\* C3, amended: handlers are invoked in registration order, no layer twice;
\* a layer of the Router's stack is invoked only if it is applicable to
\* request.url and request.method as they are at that moment; the layers of
\* a Route are selected by the method the request had when the Route was
\* entered, whatever the handlers of the Route assign afterwards
OrderedAndMatchedAtEntry ==
  [][InvokedStep =>
       /\ InRegistrationOrder
       /\ ~SameRouteStep => StackLayerApplies(ctl'.i, req')
       /\ ctl'.j > 0 =>
            /\ LayerAt(State, ctl'.i, ctl'.j).method
                  \in {Undef, rd'[stack[ctl'.i].route].method}
            /\ ~SameRouteStep => rd'[stack[ctl'.i].route].method = req'.method]_vars

\* the second handler of a Route, registered for GET, runs although the
\* first one has changed request.method to POST
RouteLayerAfterMethodRewrite ==
  /\ ctl.kind = "handler"
  /\ ctl.j = 2
  /\ g.ninv = 2
  /\ g.rewriteAt = 1
  /\ req.method = "POST"
  /\ LayerAt(State, ctl.i, ctl.j).method = "GET"

\* the layer whose handler runs after the step
InvokedLayer == LayerAt(State, ctl'.i, ctl'.j)

\* C4, as stated: once an error was handed to a continuation, no normal
\* handler is invoked until an error-shaped handler has called its
\* continuation with no argument; a handler is invoked for the error only if
\* it is registered after the handlers invoked so far.
NormalOnlyAfterNoArgument ==
  [][InvokedStep =>
       /\ g'.unconsumed => ctl'.mode = "error"
       /\ Before(g.last, g'.last)]_vars

\* C4, amended: while an error is in flight only error-shaped handlers
\* (fn.length = 4) registered after the handlers invoked so far are invoked,
\* each with that error; the error stays in flight until an error-shaped
\* handler calls its continuation with a value that is no error: no argument,
\* a falsy value or "route".  With no error in flight only handlers that are
\* not error-shaped are invoked.
ErrorModeUntilConsumed ==
  [][InvokedStep =>
       /\ IsError(g'.flight) <=> ctl'.mode = "error"
       /\ ctl'.mode = "error" => ctl'.err = g'.flight /\ InvokedLayer.arity = 4
       /\ ctl'.mode = "request" => InvokedLayer.arity < 4
       /\ Before(g.last, g'.last)]_vars

\* an error handler runs with the error of the first middleware, the normal
\* middleware between the two having been passed over
ErrorHandlerAfterSkippedHandler ==
  /\ ctl.kind = "handler"
  /\ ctl.mode = "error"
  /\ ctl.err = "E1"
  /\ ctl.i = 3
  /\ ctl.j = 0
  /\ g.ninv = 2
  /\ stack[1].arity = 3
  /\ stack[2].arity = 3
  /\ stack[2].route = 0

\* the loop of the Router has ended for want of a layer or of a path, and
\* what it scheduled has run
Ended == g.exit \in {"exhausted", "nomatch", "nopath"} /\ tasks = <<>>

\* the final callback got the exception of the automatic OPTIONS response,
\* which a handler had made impossible by finishing the response
CallbackGotHeadersSent ==
  /\ cb.arg = HeadersSent
  /\ res.headersSent
  /\ h.methods # Undefined
  /\ h.methods # <<>>

\* the callback has been invoked once, with the error in flight or with no
\* error
CallbackGotFlight ==
  /\ cb.count = 1
  /\ IF IsError(g.flight) THEN cb.arg = g.flight ELSE ~Truthy(cb.arg)

\* C5, as stated: when the stack is exhausted, no remaining layer matches or
\* the path cannot be obtained, the final callback receives the error in
\* flight, or no error when there is none, and no handler is invoked
\* afterwards.
ExitCallsBack ==
  /\ [](Ended => CallbackGotFlight)
  /\ [][g.exit # "none" => ~InvokedStep]_vars

\* C5, amended: in those three cases no handler is invoked afterwards, and
\* the final callback receives the error in flight, or no error when there is
\* none, except for a request that entered as OPTIONS with no error in
\* flight and a method of some Route collected: then the automatic response
\* is written and the callback is not invoked, or writing it throws and the
\* callback receives that exception
ExitCallsBackOrAnswersOptions ==
  /\ [](Ended =>
          IF OptionsAnswered THEN cb.count = 0 /\ ~IsError(g.flight)
          ELSE \/ CallbackGotFlight
               \/ cb.count = 1 /\ ~IsError(g.flight) /\ CallbackGotHeadersSent)
  /\ [][g.exit # "none" => ~InvokedStep]_vars

\* no layer matched after a middleware failed: the callback got its error
NoMatchWithError ==
  /\ Ended
  /\ g.exit = "nomatch"
  /\ g.ninv = 1
  /\ cb.count = 1
  /\ cb.arg = "E1"

\* what the Router does next carries no error: it schedules or makes the
\* call of the final callback with no error, unless the automatic OPTIONS
\* response takes its place
FinishesWithoutError ==
  /\ tasks' # tasks => ~Truthy(tasks'[Len(tasks')].arg)
  /\ cb'.count # cb.count => ~Truthy(cb'.arg) \/ CallbackGotHeadersSent'

\* C6: when a handler inside a Route calls its continuation with "route", no
\* later layer of that Route is invoked, the Route finishes with no error and
\* the Router goes on with the stack entry that follows the Route.
RouteSignalLeavesRoute ==
  /\ [][g'.exited # g.exited =>
          LET i == CHOOSE x \in g'.exited : x \notin g.exited IN
          /\ h'.idx > i \/ h'.idx = Len(stack)
          /\ IF ctl'.kind = "handler"
               THEN InvokedStep /\ ctl'.i > i /\ ctl'.mode = "request"
               ELSE FinishesWithoutError]_vars
  /\ [][InvokedStep => ctl'.i \notin g.exited]_vars

\* the first handler of a Route that has two called its continuation with
\* "route", and the middleware after the Route runs
AfterRouteSignal ==
  /\ ctl.kind = "handler"
  /\ ctl.j = 0
  /\ ctl.i = 2
  /\ g.ninv = 2
  /\ g.exited = {1}
  /\ Len(routes[stack[1].route].stack) = 2

\* the dispatch that a handler left with "router" has run what it scheduled
LeftAndDone == g.left /\ tasks = <<>>

\* C7, as stated: when a handler, middleware or Route handler, calls its
\* continuation with "router", no further layer is invoked and the final
\* callback is invoked with no error.
RouterSignalCallsBack ==
  /\ [][g'.left => ~InvokedStep]_vars
  /\ [](LeftAndDone => cb.count = 1 /\ ~Truthy(cb.arg))

\* C7, amended: after "router" no further layer is invoked, and the final
\* callback is invoked with no error, except for a request that entered as
\* OPTIONS with a method of some Route collected: then the automatic response
\* is written and the callback is not invoked, or writing it throws and the
\* callback receives that exception
RouterSignalCallsBackOrAnswersOptions ==
  /\ [][g'.left => ~InvokedStep]_vars
  /\ [](LeftAndDone =>
          IF OptionsAnswered THEN cb.count = 0
          ELSE cb.count = 1 /\ (~Truthy(cb.arg) \/ CallbackGotHeadersSent))

\* a Route handler called its continuation with "router" while a middleware
\* was still to come, and the callback was invoked
RouterSignalFromRoute ==
  /\ LeftAndDone
  /\ g.last[2] > 0
  /\ g.last[1] < Len(stack)
  /\ stack[Len(stack)].arity = 3
  /\ req.method = "GET"
  /\ cb.count = 1

\* a handler calls its continuation with v in this step, from its body or
\* from a later turn
CallsNextStep(v) == CallNext(v) \/ \E p \in pending : AsyncNext(p, v)

\* after the step v is the error of the dispatch: the handler invoked gets
\* it, as an error handler, or else the final callback gets it, in this step
\* or when the task scheduled in this step runs
ErrorHandedOn(v) ==
  IF ctl'.kind = "handler"
    THEN InvokedStep /\ ctl'.mode = "error" /\ ctl'.err = v
    ELSE \/ /\ tasks' = Append(tasks, [fn |-> "done", i |-> 0, arg |-> v])
            /\ cb' = cb
         \/ /\ tasks' = tasks
            /\ cb'.count = cb.count + 1
            /\ cb'.arg = v

\* the final callback has the error that was in flight when it was invoked
CallbackHasFlight == cb.count > 0 /\ IsError(g.flight) => cb.arg = g.flight

\* C8, as stated: every value handed to a continuation, other than no
\* argument, "route" and "router", is from then on the error in flight: the
\* layers that follow get it as error handlers, and the final callback gets
\* it when no layer consumes it.
EveryValueIsAnError ==
  /\ [][\A v \in NextArgs \ {Undef, "route", "router"} :
          CallsNextStep(v) => ErrorHandedOn(v)]_vars
  /\ []CallbackHasFlight

\* C8, amended: every truthy value handed to a continuation, other than
\* "route" and "router", is from then on the error in flight; a falsy value
\* (null, 0, '', false) counts as no argument
EveryTruthyValueIsAnError ==
  /\ [][\A v \in NextArgs :
          IsError(v) /\ CallsNextStep(v) => ErrorHandedOn(v)]_vars
  /\ []CallbackHasFlight

\* inside a Route an error handler runs with the error the handler before it
\* handed to its continuation
ErrorHandlerInsideRoute ==
  /\ ctl.kind = "handler"
  /\ ctl.mode = "error"
  /\ ctl.err = "E1"
  /\ ctl.j = 2
  /\ g.ninv = 2

\* the continuation of the handler p, which returned earlier, is called with v
ContinuationCalled(p, v) ==
  Becomes(Called([State EXCEPT !.pending = @ \ {p}], p, v))

\* C9: what a handler throws, normal or error-shaped, and the reason a
\* promise it returned is rejected with, go to the handler's continuation,
\* the rejection with no reason as the error 'Rejected promise'; no exception
\* leaves the dispatch.
FailuresGoToContinuation ==
  /\ [][\A v \in Thrown :
          /\ Throw(v) => CallNext(v)
          /\ \A p \in pending :
               PromiseReject(p, v) =>
                 ContinuationCalled(p, IF v = Undef THEN RejectedPromise ELSE v)]_vars
  /\ [](~g.escaped)

\* an error handler runs with the error 'Rejected promise'
RejectedPromiseHandled ==
  /\ ctl.kind = "handler"
  /\ ctl.mode = "error"
  /\ ctl.err = RejectedPromise

\* C10: when the promise a handler returned is fulfilled and the handler has
\* not called its continuation, the dispatch does not advance: no handler is
\* invoked, nothing is scheduled and the final callback is not invoked.
FulfilledDoesNotAdvance ==
  [][\A p \in pending :
       PromiseResolve(p) =>
         /\ UNCHANGED <<req, res, h, rd, ctl, tasks, cb>>
         /\ ~InvokedStep
         /\ pending' = pending \ {p}]_vars

\* the promise of the only handler invoked was fulfilled; the dispatch rests
\* with the final callback not invoked
RestsAfterFulfilled ==
  /\ g.silent = "fulfilled"
  /\ g.ninv = 1
  /\ ctl.kind = "idle"
  /\ pending = {}
  /\ tasks = <<>>
  /\ cb.count = 0
  /\ h.idx < Len(stack)

\* the handler invoked in this step is in the Route of the handler invoked
\* before it
SameRoute == g.last[2] > 0 /\ ctl'.j > 0 /\ ctl'.i = g.last[1]

\* the middleware of the Router's stack, all mounted on "/", that the step
\* passed over on its way to the handler it invokes
PassedMiddleware ==
  {k \in (g.last[1] + 1)..(ctl'.i - 1) : stack[k].route = 0}

\* the layers of the Route of the invoked handler that the step passed over
\* on its way, all registered under the method of the request
PassedRouteLayers ==
  IF ctl'.j = 0 THEN {}
  ELSE IF SameRoute THEN (g.last[2] + 1)..(ctl'.j - 1)
  ELSE 1..(ctl'.j - 1)

\* the arities of the layers the step passed over
PassedArities ==
  {stack[k].arity : k \in PassedMiddleware}
    \cup {routes[stack[ctl'.i].route].stack[k].arity : k \in PassedRouteLayers}

\* C11, as stated: handleRequest calls the handler only when fn.length is 3;
\* a handler of any other length is passed over, the continuation being
\* resumed with no argument.
RequestHandlerHasLengthThree ==
  [][InvokedStep /\ ctl'.mode = "request" =>
       /\ InvokedLayer.arity = 3
       /\ \A a \in PassedArities : a # 3]_vars

\* C11, amended: handleRequest calls the handler when fn.length is at most
\* 3; a handler of length 4 or more is passed over, the continuation being
\* resumed with no argument, so that the request goes to the layers after it
\* with no error
RequestHandlerHasLengthAtMostThree ==
  [][InvokedStep /\ ctl'.mode = "request" =>
       /\ InvokedLayer.arity <= 3
       /\ ctl'.err = Undef
       /\ ~IsError(g'.flight)
       /\ \A a \in PassedArities : a > 3]_vars

\* a middleware of length 2 runs after the request passed over a
\* middleware of length 5
ShortHandlerAfterLongOne ==
  /\ ctl.kind = "handler"
  /\ ctl.mode = "request"
  /\ ctl.i = 2
  /\ ctl.j = 0
  /\ stack[1].route = 0
  /\ stack[1].arity = 5
  /\ stack[2].arity = 2
  /\ g.ninv = 1

\* C12: handleError calls the handler only when fn.length is 4; a handler
\* of any other length is passed over and the continuation is resumed with
\* the same error, so that the error handler reached gets the error in
\* flight unchanged.
ErrorHandlerHasLengthFour ==
  [][InvokedStep /\ (ctl'.mode = "error" \/ IsError(g'.flight)) =>
       /\ ctl'.mode = "error"
       /\ InvokedLayer.arity = 4
       /\ ctl'.err = g'.flight
       /\ \A a \in PassedArities : a # 4]_vars

\* an error handler runs with the error of the first middleware, after the
\* error passed over middleware of length 2, 3 and 5
ErrorPassedOverOtherShapes ==
  /\ ctl.kind = "handler"
  /\ ctl.mode = "error"
  /\ ctl.err = "E1"
  /\ ctl.j = 0
  /\ g.ninv = 2
  /\ \E k \in 2..(ctl.i - 1) : stack[k].route = 0 /\ stack[k].arity \in {2, 5}

\* the Routes whose dispatch() is called in this step
EnteredRoutes == {r \in DOMAIN rd : rd'[r].active /\ ~rd[r].active}

NoHandlerForMethod(r) ==
  /\ req.method # "HEAD"
  /\ ~routes[r].all
  /\ \A k \in 1..Len(routes[r].methods) : routes[r].methods[k] # req.method

EffectiveMethod(r) ==
  IF req'.method = "HEAD"
       /\ \A k \in 1..Len(routes[r].methods) : routes[r].methods[k] # "HEAD"
    THEN "GET"
    ELSE req'.method

\* C15: in the dispatch of a Route a layer is applicable exactly when it was
\* registered under no method or under the effective method, which for a
\* HEAD request is GET when the Route has no handler under HEAD, and HEAD
\* otherwise; request.method is not changed.
RouteLayersUnderEffectiveMethod ==
  [][/\ h.started => req'.method = req.method
     /\ InvokedStep /\ ctl'.j > 0 /\ ctl'.mode = "request" =>
          LET r == stack[ctl'.i].route IN
          /\ InvokedLayer.method \in {Undef, EffectiveMethod(r)}
          /\ \A k \in PassedRouteLayers :
               routes[r].stack[k].method \notin {Undef, EffectiveMethod(r)}]_vars

\* a HEAD request is in the GET handler of a Route that has no handler
\* under HEAD
HeadServedByGet ==
  /\ ctl.kind = "handler"
  /\ ctl.j > 0
  /\ req.method = "HEAD"
  /\ LayerAt(State, ctl.i, ctl.j).method = "GET"
  /\ routes[stack[ctl.i].route].methods = <<"GET">>

\* ------------------------------------------------------------------------
\* Parameter callbacks
\* ------------------------------------------------------------------------

\* positions in the history at which a layer captured a value for the key
\* while callbacks were registered for it
Captures(key) ==
  {n \in 1..Len(g.plog) : g.plog[n].ev = "capture" /\ g.plog[n].key = key}

\* positions in the history at which callback number idx of the key was
\* invoked
Calls(key, idx) ==
  {n \in 1..Len(g.plog) :
     g.plog[n].ev = "call" /\ g.plog[n].key = key /\ g.plog[n].idx = idx}

\* every layer that captured the key in this dispatch captured the same value
SameValueCaptured(key) ==
  /\ Captures(key) # {}
  /\ \A a, b \in Captures(key) : g.plog[a].val = g.plog[b].val

\* C16: when the layers a request matches all capture the same value for a
\* key, the first callback registered for the key is invoked exactly once
\* in the dispatch and no callback of the key more than once
CallbackOnceForSameValue ==
  \A key \in ParamNames :
    SameValueCaptured(key) =>
      /\ Cardinality(Calls(key, 1)) = 1
      /\ \A idx \in 1..routerParams[key] : Cardinality(Calls(key, idx)) <= 1

\* a finished dispatch in which two layers captured "k" with the same value
\* and both their handlers ran
TwoLayersCapturedSameValue ==
  /\ cb.count = 1
  /\ SameValueCaptured("k")
  /\ \E a, b \in Captures("k") : g.plog[a].layer # g.plog[b].layer
  /\ g.ninv >= 2

SuccessiveCaptures(c, d) ==
  /\ c < d
  /\ g.plog[c].ev = "capture" /\ g.plog[d].ev = "capture"
  /\ g.plog[c].key = g.plog[d].key
  /\ \A e \in (c + 1)..(d - 1) :
       ~(g.plog[e].ev = "capture" /\ g.plog[e].key = g.plog[c].key)

\* the capture at c was followed by the call of the key's first callback
\* with the value captured
InvokedAt(c) ==
  /\ c < Len(g.plog)
  /\ g.plog[c + 1].ev = "call"
  /\ g.plog[c + 1].key = g.plog[c].key
  /\ g.plog[c + 1].idx = 1
  /\ g.plog[c + 1].val = g.plog[c].val

\* before position c a callback of the key handed an error to its
\* continuation
FailedBefore(key, c) ==
  \E e \in 1..(c - 1) : g.plog[e].ev = "error" /\ g.plog[e].key = key

SkippedForRunningHandler ==
  {c \in 1..Len(g.plog) :
     /\ g.plog[c].ev = "capture"
     /\ g.plog[c].layer = ctl.i
     /\ ~InvokedAt(c)}

\* C19: while the handler of a layer runs for which the callbacks of a
\* captured key were skipped, request.params[key] is the value the key's
\* callbacks left there when they last ran
SkippedKeyHasValueCallbacksLeft ==
  InHandler =>
    \A c \in SkippedForRunningHandler :
      Get(req.params, g.plog[c].key) = g.pleft[g.plog[c].key]

\* a handler runs after the callbacks of "k" were skipped for its layer, and
\* request.params.k is not the text the layer captured
HandlerSeesAssignedValue ==
  /\ InHandler
  /\ \E c \in SkippedForRunningHandler :
       /\ g.plog[c].key = "k"
       /\ Get(req.params, "k") # g.plog[c].val
       /\ Get(req.params, "k") \in ParamValues

\* the names of the parameters of a template, and where a name stands in it
TemplateKeys(tmpl) ==
  {ParamName(tmpl[n]) : n \in {m \in 1..Len(tmpl) : tmpl[m] \in ParamTokens}}

KeyPosition(tmpl, key) ==
  CHOOSE n \in 1..Len(tmpl) : tmpl[n] \in ParamTokens /\ ParamName(tmpl[n]) = key

\* the keys of one layer were taken in the order of its template
KeysInTemplateOrder ==
  \A c, d \in 1..Len(g.plog) :
    /\ c < d
    /\ g.plog[c].ev = "capture" /\ g.plog[d].ev = "capture"
    /\ g.plog[c].layer = g.plog[d].layer
    => KeyPosition(stack[g.plog[c].layer].tmpl, g.plog[c].key)
         < KeyPosition(stack[g.plog[c].layer].tmpl, g.plog[d].key)

\* the call of a key's callback number idx > 1 follows the call of its
\* callback number idx - 1 for the same layer
CallbacksInRegistrationOrder ==
  \A n \in 1..Len(g.plog) :
    g.plog[n].ev = "call" /\ g.plog[n].idx > 1 =>
      /\ g.plog[n - 1].ev = "call"
      /\ g.plog[n - 1].layer = g.plog[n].layer
      /\ g.plog[n - 1].key = g.plog[n].key
      /\ g.plog[n - 1].idx = g.plog[n].idx - 1

\* every callback was called with the text the layer's template captured
\* from the path of the request
CallbacksReceiveMatchedValue ==
  \A n \in 1..Len(g.plog) :
    g.plog[n].ev = "call" =>
      g.plog[n].val =
        req.originalUrl[KeyPosition(stack[g.plog[n].layer].tmpl, g.plog[n].key)]

\* the handler of a layer runs when every key of its template that has
\* callbacks was taken, and every callback of a key that was not skipped has
\* been called
HandlerAfterAllKeys ==
  InHandler =>
    \A key \in TemplateKeys(stack[ctl.i].tmpl) :
      routerParams[key] > 0 =>
        \E c \in 1..Len(g.plog) :
          /\ g.plog[c].ev = "capture"
          /\ g.plog[c].layer = ctl.i /\ g.plog[c].key = key
          /\ InvokedAt(c) =>
               \A idx \in 1..routerParams[key] :
                 \E n \in (c + 1)..Len(g.plog) :
                   /\ g.plog[n].ev = "call" /\ g.plog[n].idx = idx
                   /\ g.plog[n].layer = ctl.i /\ g.plog[n].key = key

\* a step that calls a key's callback number idx > 1 is one in which its
\* callback number idx - 1 calls its continuation
NextCallbackOnContinuation ==
  LET n == Len(g'.plog) IN
  n > Len(g.plog) /\ g'.plog[n].ev = "call" /\ g'.plog[n].idx > 1 =>
    /\ InParam
    /\ ctl.i = g'.plog[n].layer
    /\ h.pp.key = g'.plog[n].key
    /\ h.pp.paramIndex = g'.plog[n].idx - 1

\* C20: the keys of a matched layer are processed in the order of its
\* template; the callbacks of one key run in registration order, each when
\* the one before it calls its continuation, and each gets the text the
\* template captured; the layer's handler runs after all keys are processed
ParamsInOrderBeforeHandler ==
  [][ /\ KeysInTemplateOrder'
      /\ CallbacksInRegistrationOrder'
      /\ CallbacksReceiveMatchedValue'
      /\ HandlerAfterAllKeys'
      /\ NextCallbackOnContinuation ]_vars

\* the handler of a layer with the keys "m" and "k" runs after two callbacks
\* of each were called for the layer, one of which assigned
\* request.params[key]
HandlerAfterFourCallbacks ==
  /\ InHandler
  /\ stack[ctl.i].tmpl = <<"/", ":m", "/", ":k">>
  /\ g.rewrites > 0
  /\ \A key \in {"m", "k"} : \A idx \in {1, 2} :
       \E n \in 1..Len(g.plog) :
         /\ g.plog[n].ev = "call" /\ g.plog[n].layer = ctl.i
         /\ g.plog[n].key = key /\ g.plog[n].idx = idx

\* ------------------------------------------------------------------------
\* Parameter callbacks that fail or leave the layer
\* ------------------------------------------------------------------------

\* the layer whose parameter callback is running, or has returned a promise
FailingLayer ==
  IF InParam THEN ctl.i
  ELSE LET p == CHOOSE q \in pending : q.kind = "param" IN p.i

\* the step runs no further parameter callback of that layer and does not
\* invoke its handler
LayerAbandoned ==
  /\ ~(ctl'.kind \in {"handler", "param"} /\ ctl'.i = FailingLayer)
  /\ \A n \in (Len(g.plog) + 1)..Len(g'.plog) :
       ~(g'.plog[n].ev = "call" /\ g'.plog[n].layer = FailingLayer)

\* after the step v is the error in flight: an error handler gets it, or the
\* final callback does, now or from the task the step queued
InFlightAfter(v) ==
  /\ ctl'.kind = "handler" => ctl'.mode = "error" /\ ctl'.err = v
  /\ ctl'.kind = "idle" /\ cb'.count > cb.count => cb'.arg = v
  /\ ctl'.kind = "idle" /\ Len(tasks') > Len(tasks) => tasks'[Len(tasks')].arg = v

\* the running parameter callback hands v to its continuation or throws v,
\* or the promise it returned is rejected with v
FailsWith(v) ==
  \/ ParamNext(v)
  \/ ParamThrow(v)
  \/ \E p \in pending : ParamPromiseReject(p, v)

KeptOr(v) == IF g.flight # Undef THEN g.flight ELSE v

NoFurtherKey ==
  \A n \in (Len(g.plog) + 1)..Len(g'.plog) : g'.plog[n].layer # FailingLayer

\* after the step nothing new is in flight: a handler of a later layer runs
\* in the mode and with the error of before, and the final callback gets
\* the error of before or a falsy value
NothingPutInFlight ==
  /\ ctl'.kind = "handler" =>
       /\ ctl'.i > FailingLayer
       /\ IF g.flight = Undef THEN ctl'.mode = "request"
          ELSE ctl'.mode = "error" /\ ctl'.err = g.flight
  /\ ctl'.kind = "idle" /\ cb'.count > cb.count =>
       IF g.flight = Undef THEN ~Truthy(cb'.arg) ELSE cb'.arg = g.flight
  /\ ctl'.kind = "idle" /\ Len(tasks') > Len(tasks) =>
       IF g.flight = Undef THEN ~Truthy(tasks'[Len(tasks')].arg)
       ELSE tasks'[Len(tasks')].arg = g.flight

\* C22: when a parameter callback calls its continuation with "route", no
\* further callback or key of the layer is processed, the layer's handler is
\* not invoked, and the Router goes on with the next stack entry with no
\* error put in flight
RouteSignalFromParamSkipsLayer ==
  [][ ParamNext("route") => LayerAbandoned /\ NoFurtherKey /\ NothingPutInFlight ]_vars

\* the only handler invoked so far runs in request mode, behind a layer
\* whose parameter callback ran and raised no error
HandlerBehindSkippedLayer ==
  /\ InHandler /\ ctl.mode = "request"
  /\ g.ninv = 1
  /\ \E n \in 1..Len(g.plog) : g.plog[n].ev = "call" /\ g.plog[n].layer < ctl.i
  /\ \A n \in 1..Len(g.plog) : g.plog[n].ev # "error"

\* ------------------------------------------------------------------------
\* Prefix trimming
\* ------------------------------------------------------------------------

\* the scheme and host the urls in absolute form start with
SchemeAndHost == <<"h", ":", "/", "/", "h">>

\* the scheme and host of the url the request came with, '' if it has none
EntryHost ==
  IF StartsWith(req.originalUrl, SchemeAndHost) THEN SchemeAndHost ELSE <<>>

\* the prefix the middleware whose handler is running was mounted under,
\* '' for a mount under "/"
Mount == IF stack[ctl.i].tmpl = <<"/">> THEN <<>> ELSE stack[ctl.i].tmpl

\* the url the request came with, without scheme, host and mount prefix
BehindMount == SliceFrom(req.originalUrl, Len(EntryHost) + Len(Mount))

\* request.baseUrl as the caller of handle() left it, '' for undefined
ParentBaseUrl == IF g.entry.baseUrl = Undefined THEN <<>> ELSE g.entry.baseUrl

\* the handler of a middleware mounted under a prefix is running
InMounted == InHandler /\ ctl.j = 0 /\ Mount # <<>>

\* siblings mounted under "/" and the final callback see the url the
\* request came with and the caller's baseUrl
SiblingsSeeOriginal ==
  /\ InHandler /\ Mount = <<>> =>
       req.url = req.originalUrl /\ req.baseUrl = ParentBaseUrl
  /\ cb.count > 0 => req.url = req.originalUrl /\ cb.baseUrl = g.entry.baseUrl

\* C23 as stated: the handler of a middleware mounted under a prefix P sees
\* request.url with P removed and beginning with "/", and request.baseUrl
\* as the parent's followed by P; layers mounted under "/" and the final
\* callback see the url and baseUrl of before
TrimmedUrlBeginsWithSlash ==
  /\ InMounted =>
       /\ req.url[1] = "/"
       /\ req.url = IF BehindMount # <<>> /\ BehindMount[1] = "/"
                      THEN BehindMount ELSE <<"/">> \o BehindMount
       /\ req.baseUrl = ParentBaseUrl \o Mount
  /\ SiblingsSeeOriginal

\* C23, amended: the handler of a middleware mounted under a prefix P sees
\* request.url with P removed; a url in origin form begins with "/", one in
\* absolute form keeps its scheme and host in front and gets no "/" added;
\* request.baseUrl is the parent's followed by P; layers mounted under "/"
\* and the final callback see the url and baseUrl of before
TrimmedUrlKeepsSchemeAndHost ==
  /\ InMounted =>
       /\ req.url = IF EntryHost # <<>> THEN EntryHost \o BehindMount
                    ELSE IF BehindMount # <<>> /\ BehindMount[1] = "/"
                      THEN BehindMount
                    ELSE <<"/">> \o BehindMount
       /\ req.baseUrl = ParentBaseUrl \o Mount
  /\ SiblingsSeeOriginal

\* a middleware mounted under "/" runs after one mounted under a prefix
\* ran on a url in absolute form
SiblingAfterMountedOnAbsoluteUrl ==
  /\ InHandler /\ Mount = <<>>
  /\ EntryHost # <<>>
  /\ ctl.i > 1 /\ stack[ctl.i - 1].tmpl # <<"/">>
  /\ g.ninv = ctl.i

\* ------------------------------------------------------------------------
\* The automatic OPTIONS response
\* ------------------------------------------------------------------------

\* the members of a list of methods
Members(methods) == {methods[k] : k \in 1..Len(methods)}

\* the methods a Route declares, HEAD among them when it declares GET
Declared(r) ==
  Members(routes[r].methods) \cup
    (IF "GET" \in Members(routes[r].methods) THEN {"HEAD"} ELSE {})

\* layer i of the Router wraps a Route on the path `url` that has no handler
\* for OPTIONS
RouteWithoutOptions(i, url) ==
  /\ stack[i].route # 0
  /\ stack[i].tmpl = url
  /\ "OPTIONS" \notin Members(routes[stack[i].route].methods)

\* the methods declared by the Routes among the layers in `layers`
DeclaredAmong(layers, url) ==
  UNION {Declared(stack[i].route) : i \in {k \in layers : RouteWithoutOptions(k, url)}}

\* a < b in the order the Allow header lists methods in
Alphabetical(a, b) ==
  <<a, b>> \in { <<"GET", "HEAD">>, <<"GET", "OPTIONS">>, <<"GET", "POST">>,
                 <<"HEAD", "OPTIONS">>, <<"HEAD", "POST">>, <<"OPTIONS", "POST">> }

\* the Allow header lists the accumulated methods, sorted, each one once
AllowIsSortedAccumulator ==
  OptionsAnswered =>
    /\ \A k \in 1..Len(res.allow) - 1 : Alphabetical(res.allow[k], res.allow[k + 1])
    /\ Members(res.allow) = Members(h.methods)

\* an OPTIONS dispatch is over without an error and no handler has written
\* the response
OptionsEndedClean ==
  /\ Quiescent
  /\ h.methods # Undefined
  /\ cb.count > 0 \/ OptionsAnswered
  /\ ~IsError(g.flight)
  /\ ~(res.headersSent /\ ~OptionsAnswered)

\* C24 as stated: an OPTIONS dispatch that ends without an error, no handler
\* having written the response, answers with an Allow header that lists,
\* sorted and each once, the methods declared by every Route on the path of
\* the request that has no handler for OPTIONS
AllowListsEveryMatchedRoute ==
  /\ AllowIsSortedAccumulator
  /\ OptionsEndedClean /\ DeclaredAmong(1..Len(stack), req.originalUrl) # {} =>
       /\ OptionsAnswered
       /\ Members(res.allow) = DeclaredAmong(1..Len(stack), req.originalUrl)

\* the methods collected before the step
Collected == IF h.methods = Undefined THEN {} ELSE Members(h.methods)

\* C24, amended: the Allow header of the automatic response lists, sorted
\* and each once, the methods accumulated, and every step of an OPTIONS
\* dispatch adds to them the methods declared (HEAD where GET is declared
\* without it) by the Routes it passes over with no error in flight that are
\* on the path of the request and have no handler for OPTIONS, and nothing
\* else: a Route passed over while an error is in flight adds nothing
AllowListsRoutesPassedWithoutError ==
  /\ [](AllowIsSortedAccumulator)
  /\ [][h'.methods # Undefined =>
          Members(h'.methods) =
            Collected \cup (IF IsError(g'.flight) THEN {}
                            ELSE DeclaredAmong((h.idx + 1)..h'.idx,
                                               req'.originalUrl))]_vars

\* the automatic response lists the methods of two Routes, the one declared
\* first sorted last
AllowFromTwoRoutes ==
  /\ OptionsAnswered
  /\ res.allow = <<"GET", "HEAD", "POST">>
  /\ Len(routes) = 2
  /\ routes[1].methods = <<"POST">>

\* the dispatch has left the loop of the Router and what it scheduled has run
DispatchOver == g.exit # "none" /\ tasks = <<>>

\* C25: no automatic response is written when no method was collected or
\* when the dispatch ends with an error in flight; the final callback is then
\* invoked once, with the argument it receives for a request of any other
\* method: the error in flight, or none
NoAnswerWithoutMethodsOrWithError ==
  /\ OptionsAnswered => h.methods # <<>> /\ ~IsError(g.flight)
  /\ DispatchOver /\ (h.methods \in {Undefined, <<>>} \/ IsError(g.flight)) =>
       /\ ~OptionsAnswered
       /\ CallbackGotFlight

\* an OPTIONS dispatch that collected the methods of a Route has ended with
\* an error in flight, and the callback has it
OptionsEndedWithError ==
  /\ DispatchOver
  /\ h.methods \notin {Undefined, <<>>}
  /\ IsError(g.flight)
  /\ cb.count = 1
  /\ cb.arg = g.flight
  /\ ~res.headersSent

\* the layers of the Router registered with use
Middleware == {i \in 1..Len(stack) : stack[i].route = 0}

\* the methods the Routes among the first n layers of the Router declare
DeclaredUpTo(n) ==
  UNION {Declared(stack[i].route) : i \in (1..n) \ Middleware}

\* C26: a layer registered with use adds no method to the OPTIONS
\* accumulator, whatever the shape of its handler and whether or not its
\* path matches: a step that passes over such layers only leaves the
\* accumulator as it was, and every method in it was declared by a Route
\* among the layers passed
OnlyRoutesAccumulate ==
  /\ [](h.methods # Undefined => Members(h.methods) \subseteq DeclaredUpTo(h.idx))
  /\ [][/\ h'.methods # Undefined
        /\ (h.idx + 1)..h'.idx \subseteq Middleware
        => h'.methods = IF h.started THEN h.methods ELSE <<>>]_vars

\* the handler of a middleware is running in an OPTIONS dispatch that has
\* passed over another middleware, one on another path, and has collected
\* nothing
MiddlewareLeftAccumulatorEmpty ==
  /\ InHandler
  /\ h.methods = <<>>
  /\ ctl.i > 1
  /\ stack[ctl.i].route = 0
  /\ \E i \in 1..(ctl.i - 1) : stack[i].tmpl = <<"/", "b">> /\ stack[i].route = 0
  /\ \E i \in 1..(ctl.i - 1) : stack[i].tmpl = <<"/">>

\* ------------------------------------------------------------------------
\* The sync stack
\* ------------------------------------------------------------------------

\* the handler invoked in this step is the one behind the handler invoked
\* last, in the Router's chain or in the Route's
NextInChain ==
  IF routes = <<>> THEN ctl'.i = g.last[1] + 1 /\ ctl'.j = 0
  ELSE ctl'.i = 1 /\ ctl'.j = g.last[2] + 1

\* the handler invoked in this step gets the value in flight
GetsValueInFlight ==
  IF IsError(g'.flight) THEN ctl'.mode = "error" /\ ctl'.err = g'.flight
  ELSE ctl'.mode = "request"

\* the step puts off an iteration of a loop to the task queue
DeferredStep ==
  /\ Len(tasks') = 1
  /\ tasks'[1].fn \in {"next", "routeNext"}
  /\ tasks # tasks'

\* C27: in a chain of more handlers than the threshold, each calling its
\* continuation before it returns, no handler runs with more than 100
\* entries of its loop nested, in the Router and in a Route: the handler
\* behind the 100th is entered from the task queue.  The iteration put off
\* takes up the value handed on, and every handler of the chain is invoked
\* in its turn, once, with the value in flight.
SyncStackBounded ==
  /\ [](InHandler =>
          /\ h.sync <= MaxSyncStack
          /\ \A r \in DOMAIN rd : rd[r].sync <= MaxSyncStack)
  /\ [][InvokedStep =>
          /\ NextInChain
          /\ GetsValueInFlight
          /\ InHandler => (IF ctl'.j = 0 THEN ctl'.i ELSE ctl'.j) # MaxSyncStack + 1]_vars
  /\ [][DeferredStep =>
          /\ ~InvokedStep
          /\ tasks'[1].arg = IF IsError(g'.flight) THEN g'.flight ELSE Undef]_vars

\* the handler behind the threshold runs as an error handler, entered from
\* the task queue with the error its predecessor handed on
ErrorHandlerBehindThreshold ==
  /\ InHandler
  /\ Place = MaxSyncStack + 1
  /\ g.ninv = MaxSyncStack + 1
  /\ ctl.mode = "error"
  /\ ctl.err = g.flight
  /\ tasks = <<>>

\* ------------------------------------------------------------------------
\* Parameters that cannot be decoded
\* ------------------------------------------------------------------------

\* layer i of the Router captures a parameter of the request that is no
\* valid escape
Malformed(i) ==
  stack[i].tmpl = <<"/", ":k">> /\ req'.originalUrl = <<"/", "%">>

\* the loop of the Router passes over such a layer in this step
PassedMalformed == \E i \in (h.idx + 1)..h'.idx : Malformed(i)

\* the error in flight once the loop has passed over such a layer: the one
\* that was in flight already, or else the decoding error with status 400
\* and the raw value in its message
KeptOrDecodingError ==
  IF IsError(g'.flight) THEN g'.flight ELSE "400 Failed to decode param '%'"

\* C28: a captured value that is no valid escape makes the match fail with
\* the decoding error of status 400 that names the raw value.  The handler of
\* that layer is not invoked; the error, or the error already in flight, is
\* in flight while the loop goes on: the next handler invoked is an error
\* handler of the Router that receives it, and when no layer is left it is
\* handed to the final callback
DecodingErrorIsInFlight ==
  /\ [][PassedMalformed =>
          /\ InvokedStep =>
               /\ ctl'.mode = "error" /\ ctl'.err = KeptOrDecodingError
               /\ ctl'.j = 0 /\ stack[ctl'.i].arity = 4 /\ stack[ctl'.i].route = 0
               /\ (ctl'.i = h'.idx /\ ~Malformed(ctl'.i))
          /\ cb'.count > cb.count => cb'.arg = KeptOrDecodingError
          /\ tasks' # tasks =>
               Len(tasks') = 1 /\ tasks'[1] = [fn |-> "done", i |-> 0,
                                               arg |-> KeptOrDecodingError]]_vars
  /\ [][cb'.count > cb.count /\ tasks # <<>> => cb'.arg = Head(tasks).arg]_vars

\* an error handler mounted on "/" runs with the decoding error, behind a
\* layer whose parameter could not be decoded, no other error having been
\* raised
ErrorHandlerGotDecodingError ==
  /\ InHandler
  /\ ctl.mode = "error"
  /\ ctl.err = DecodeFailed
  /\ g.flight = Undef
  /\ ctl.i > 1
  /\ stack[ctl.i].tmpl = <<"/">>
  /\ stack[ctl.i - 1].tmpl = <<"/", ":k">>

\* ------------------------------------------------------------------------
\* Merged params
\* ------------------------------------------------------------------------

\* the params of the matched layer as its match left them
Own == ParamsOf("own", {stack[1].keys[n] : n \in 1..Len(stack[1].keys)})

\* the values an object holds under its numeric keys
Values(obj) == {obj[n][2] : n \in {m \in 1..Len(obj) : obj[m][1] # "k"}}

\* parent and layer both hold numeric keys starting at 0
BothNumeric == In(Key(0), Own) /\ In(Key(0), h.parentParams)

\* C29 as stated: with mergeParams the params the handler of the matched
\* layer sees are the parent's overlaid with the layer's own, whose value
\* wins under a name both hold; when both hold numeric keys starting at 0
\* the layer's numeric keys are moved up by the number of consecutive
\* numeric keys of the parent, and no value of the parent and no value of
\* the layer is lost; without mergeParams they are the layer's own
MergeLosesNoValue ==
  ctl.kind = "merged" =>
    IF ~opts.mergeParams \/ h.parentParams = UndefinedObject
      THEN req.params = Own
    ELSE /\ In("k", Own) => Get(req.params, "k") = "ownk"
         /\ ~In("k", Own) /\ In("k", h.parentParams) =>
              Get(req.params, "k") = "parentk"
         /\ BothNumeric =>
              /\ \A n \in 0..(Gap(Own) - 1) :
                   Get(req.params, Key(n + Gap(h.parentParams))) = "own" \o Key(n)
              /\ Values(Own) \cup Values(h.parentParams) \subseteq Values(req.params)
         /\ ~BothNumeric =>
              \A key \in {Key(n) : n \in 0..(MaxKeys - 1)} :
                Get(req.params, key) =
                  IF In(key, Own) THEN "own" \o key
                  ELSE IF In(key, h.parentParams) THEN "parent" \o key
                  ELSE Undef

\* ------------------------------------------------------------------------
\* Usage errors
\* ------------------------------------------------------------------------

\* no layer has been matched or invoked and nothing is scheduled
NothingDispatched ==
  /\ g.ninv = 0
  /\ h.idx = 0
  /\ \A i \in 1..Len(stack) :
       stack[i].path = Undefined /\ stack[i].params = UndefinedObject
  /\ tasks = <<>>
  /\ cb.count = 0
  /\ ctl.kind = "idle"

\* C30: handle() called without a final callback throws 'argument callback
\* is required'; no layer has been matched or invoked then, and every field
\* of the request is as the caller passed it
MissingCallbackThrowsFirst ==
  g.thrown # Undef /\ ~h.started =>
    /\ g.thrown = "argument callback is required"
    /\ NothingDispatched
    /\ req.next = g.entry.next
    /\ req.baseUrl = g.entry.baseUrl
    /\ req.params = g.entry.params
    /\ req.originalUrl = Undefined
    /\ req.route = 0

\* a Router with a middleware and a Route on the path of the request has
\* been called without a callback, on a request the caller had set up
ThrownWithLayersRegistered ==
  /\ g.thrown = "argument callback is required"
  /\ ~h.started
  /\ req.url = <<"/", "a">>
  /\ g.entry = EntryReq
  /\ req.next = "outer"
  /\ \E i \in 1..Len(stack) : stack[i].route # 0
  /\ \E i \in 1..Len(stack) : stack[i].route = 0

\* ------------------------------------------------------------------------
\* Usage errors of the registration calls
\* ------------------------------------------------------------------------

\* the usage error the arguments of a registration call ask for, undefined
\* if they are valid
UsageError(reg) ==
  CASE reg.op = "none" -> Undef
    [] reg.op = "param" ->
         IF reg.name = Undef THEN "argument name is required"
         ELSE IF reg.name = NoString THEN "argument name must be a string"
         ELSE IF reg.fns[1] = Undef THEN "argument fn is required"
         ELSE IF reg.fns[1] \notin Functions THEN "argument fn must be a function"
         ELSE Undef
    [] OTHER ->
         IF Len(reg.fns) = 0 THEN "argument handler is required"
         ELSE IF \A n \in 1..Len(reg.fns) : reg.fns[n] \in Functions THEN Undef
         ELSE "argument handler must be a function"

\* C31: use, the verb methods and all of a Route, the verb shorthands of the
\* Router and param throw their usage error inside the registration call
\* whose arguments are missing or of the wrong type, and return otherwise;
\* what the call made last has thrown is still so during every dispatch
\* that follows, where no usage error is thrown
UsageErrorsThrownAtRegistration == g.thrown = UsageError(g.reg)

\* a handler runs in a dispatch after the registration call made last has
\* thrown for a value that is no function
DispatchAfterUsageError ==
  /\ g.thrown = "argument handler must be a function"
  /\ InHandler
  /\ g.ninv > 0

\* ------------------------------------------------------------------------
\* The method set of a Route and its stack
\* ------------------------------------------------------------------------

\* the Route's stack holds a layer tagged with the method, or with none
HoldsLayer(rt, method) ==
  \E k \in 1..Len(rt.stack) : rt.stack[k].method = method

\* C38: after any registration calls on a Route, failed ones included, its
\* method set holds a method exactly when its stack holds a layer tagged
\* with it, and its all flag is set exactly when the stack holds a layer
\* without a tag
MethodSetMirrorsStack ==
  \A r \in 1..Len(routes) :
    /\ \A m \in {"GET", "POST"} : Has(routes[r].methods, m) <=> HoldsLayer(routes[r], m)
    /\ routes[r].all <=> HoldsLayer(routes[r], Undef)

\* ------------------------------------------------------------------------
\* The Router's stack after a failed registration call
\* ------------------------------------------------------------------------

\* the registration calls of the Router: use and the verb shorthands
RouterCalls == {"use", "router.POST", "router.all"}

\* C39: a registration call of the Router, use or a verb shorthand, that
\* throws a usage error leaves the Router's stack as it was before the call
FailedCallLeavesStack ==
  [][(/\ ~h'.started
      /\ g'.reg.op \in RouterCalls
      /\ g'.thrown # Undef) => stack' = stack]_vars

\* ------------------------------------------------------------------------
\* _methods() and _handlesMethod()
\* ------------------------------------------------------------------------

\* the methods of the requests _handlesMethod is asked about
AskedMethods == {"GET", "HEAD", "POST", "OPTIONS"}

\* the members of a list of methods among those asked about
Listed(methods) == {m \in AskedMethods : Has(methods, m)}

\* HEAD, where GET is registered and HEAD is not
AutomaticHead(rt) ==
  IF Has(rt.methods, "GET") /\ ~Has(rt.methods, "HEAD") THEN {"HEAD"} ELSE {}

\* C40: _methods() lists the registered methods and HEAD besides exactly
\* when GET is registered and HEAD is not; _handlesMethod(m) holds exactly
\* when the Route has a handler for all methods, or m is registered, or m is
\* HEAD and GET is registered; for a Route without a handler for all
\* methods _handlesMethod(m) holds exactly of the methods _methods() lists
MethodsListedAreHandled ==
  \A r \in 1..Len(routes) : \A m \in AskedMethods :
    LET rt == routes[r] IN
    /\ Listed(RouteMethods(rt)) = Listed(rt.methods) \cup AutomaticHead(rt)
    /\ HandlesMethod(rt, m) <=>
         \/ rt.all
         \/ m \in Listed(rt.methods)
         \/ m = "HEAD" /\ "GET" \in Listed(rt.methods)
    /\ ~rt.all => (HandlesMethod(rt, m) <=> m \in Listed(RouteMethods(rt)))

\* a HEAD request is in the handler of a Route that has GET registered and
\* neither HEAD nor a handler for all methods
HeadInHandlerUnderGet ==
  /\ InHandler
  /\ req.method = "HEAD"
  /\ \E i \in 1..Len(stack) :
       /\ ctl.i = i
       /\ stack[i].route \in 1..Len(routes)
       /\ Listed(routes[stack[i].route].methods) = {"GET"}
       /\ ~routes[stack[i].route].all

\* ------------------------------------------------------------------------
\* Middleware whose matcher took text off a path boundary
\* ------------------------------------------------------------------------

\* the text a matcher took is a prefix of the path and ends where the path
\* ends or before a "/"
OnBoundary(consumed, path) ==
  /\ StartsWith(path, consumed)
  /\ Len(path) = Len(consumed) \/ path[Len(consumed) + 1] = "/"

\* what is left of the url behind the text the layer took
Behind(consumed, url) ==
  IF Len(consumed) >= Len(url) THEN <<"/">> ELSE SliceFrom(url, Len(consumed))

\* the layers before the running one whose matcher took text off a boundary
OffBoundaryBefore ==
  {k \in 1..(ctl.i - 1) :
     /\ stack[k].path # Undefined
     /\ ~OnBoundary(stack[k].path, req.originalUrl)}

\* C34: a middleware layer whose matcher reports text that is no prefix of
\* the path, or that ends neither where the path ends nor before a "/", is
\* skipped: the handlers that run are those of layers whose text is on a
\* boundary, the url and baseUrl they see are trimmed by their own layer
\* alone, and they get the error in flight as it was
OffBoundaryLayerIsSkipped ==
  InHandler =>
    /\ OnBoundary(stack[ctl.i].path, req.originalUrl)
    /\ req.baseUrl = stack[ctl.i].path
    /\ req.url = (IF stack[ctl.i].path = <<>> THEN req.originalUrl
                  ELSE Behind(stack[ctl.i].path, req.originalUrl))
    /\ IF IsError(g.flight) THEN ctl.mode = "error" /\ ctl.err = g.flight
       ELSE ctl.mode = "request"

\* an error-shaped handler has the error in flight behind two layers whose
\* expressions matched off a boundary: one not at the start of the path, one
\* before a character other than "/"
ErrorPassedOffBoundaryLayers ==
  /\ InHandler
  /\ ctl.mode = "error"
  /\ \E k \in OffBoundaryBefore : ~StartsWith(req.originalUrl, stack[k].path)
  /\ \E k \in OffBoundaryBefore : StartsWith(req.originalUrl, stack[k].path)

\* ------------------------------------------------------------------------
\* Error-shaped handlers behind parameter callbacks
\* ------------------------------------------------------------------------

\* the layer at k is plain middleware around an error-shaped handler, and
\* its template matches the path of the request
ErrorShapedMiddleware(k) == stack[k].route = 0 /\ stack[k].arity = 4

MatchesRequest(k) == LayerMatch(stack[k], req'.originalUrl).match = "true"

\* the layers the step scans without stopping at them: those behind the
\* layer control was in and before the one it comes to, if it comes to one
ScannedThrough ==
  { k \in 1..Len(stack) :
      /\ k > (IF ctl.kind \in {"handler", "param"} THEN ctl.i ELSE 0)
      /\ ctl'.kind \in {"handler", "param"} => k < ctl'.i }

\* the step goes on with the layer of the running parameter callback: to
\* its next parameter callback, or to its handler with the error in flight
GoesOnWithLayer ==
  \/ ctl'.kind = "param" /\ ctl'.i = ctl.i
  \/ /\ ctl'.kind = "handler" /\ ctl'.i = ctl.i
     /\ ctl'.mode = "error" /\ ctl'.err = g.flight

\* a parameter of the layer at k has an error, or "route", on record
HasFailedParam(k) ==
  \E key \in TemplateKeys(stack[k].tmpl) : Truthy(h'.paramcalled[key].error)

\* a handler or a parameter callback returns, or the dispatch begins
ScanningStep == InHandler \/ InParam \/ ~h.started

\* C35 as stated: while an error is in flight every matching middleware
\* layer around an error-shaped handler is invoked with it, parameter
\* callbacks or not: scanning does not go through such a layer, and out of
\* a parameter callback of such a layer control stays with the layer
ErrorShapedLayerAlwaysInvoked ==
  [][ /\ (InParam /\ IsError(g.flight) /\ ErrorShapedMiddleware(ctl.i))
           => GoesOnWithLayer
      /\ (ScanningStep /\ IsError(g'.flight))
           => \A k \in ScannedThrough :
                ~(ErrorShapedMiddleware(k) /\ MatchesRequest(k)) ]_vars

\* C35, amended: while an error is in flight a matching middleware layer
\* around an error-shaped handler is invoked with it unless one of its
\* parameters fails: control stays with the layer when a parameter callback
\* continues and no parameter of the layer has a failure on record, and
\* scanning goes through such a layer only if one has
ErrorShapedLayerInvokedUnlessParamFails ==
  [][ /\ (/\ InParam /\ IsError(g.flight) /\ ErrorShapedMiddleware(ctl.i)
          /\ ParamNext(Undef))
           => GoesOnWithLayer \/ HasFailedParam(ctl.i)
      /\ (ScanningStep /\ IsError(g'.flight))
           => \A k \in ScannedThrough :
                ErrorShapedMiddleware(k) /\ MatchesRequest(k) => HasFailedParam(k) ]_vars

\* an error-shaped handler under a template with parameters runs with the
\* error in flight, a parameter callback of its layer having run
ErrorHandlerBehindParamCallback ==
  /\ InHandler /\ ctl.mode = "error" /\ ctl.err \in Errors
  /\ TemplateKeys(stack[ctl.i].tmpl) # {}
  /\ \E n \in 1..Len(g.plog) : g.plog[n].ev = "call" /\ g.plog[n].layer = ctl.i

\* ------------------------------------------------------------------------
\* A promise rejected after its handler has called the continuation
\* ------------------------------------------------------------------------

\* C36: a handler invocation advances the dispatch at most once: when the
\* promise of a handler that has called its continuation is rejected, the
\* dispatch loop is not entered again (no handler is invoked, no task is
\* queued, the final callback is not called), and the final callback is
\* called once at most
InvocationAdvancesOnce ==
  [][ /\ (\E p \in pending : p.kind = "advanced" /\ p \notin pending')
           => /\ g'.ninv = g.ninv
              /\ h'.idx = h.idx
              /\ tasks' = tasks
              /\ cb' = cb
      /\ cb'.count <= 1 ]_vars

\* ------------------------------------------------------------------------
\* Routers mounted in one another
\* ------------------------------------------------------------------------

RECURSIVE Enclosing(_), Depth(_)

\* the prefixes the mounts around the Router of this closure took, from the
\* outermost on
Enclosing(closure) ==
  IF closure.outer = <<>> THEN <<>>
  ELSE LET f == closure.outer[1] IN Enclosing(f.h) \o f.stack[f.at].path

\* the Routers around the Router of this closure
Depth(closure) == IF closure.outer = <<>> THEN 0 ELSE 1 + Depth(closure.outer[1].h)

\* C32: in Routers mounted in one another the baseUrl a handler sees is the
\* concatenation of the prefixes the enclosing mounts took and of the one
\* its own layer took, and the url is what is left behind it; this holds of
\* the layers of an enclosing Router that follow a mounted one too, which
\* see that Router's baseUrl and url again
BaseUrlIsEnclosingPrefixes ==
  InHandler =>
    /\ req.baseUrl = Enclosing(h) \o stack[ctl.i].path
    /\ req.url = (IF req.baseUrl = <<>> THEN req.originalUrl
                  ELSE Behind(req.baseUrl, req.originalUrl))

\* a handler of the outermost Router runs behind a mount whose Router, and
\* the Router mounted in that one, have matched layers
HandlerBehindNestedRouters ==
  /\ InHandler
  /\ h.outer = <<>>
  /\ g.ninv > 1
  /\ \E k \in 1..(ctl.i - 1), m \in 1..MaxLayers :
       /\ stack[k].mounted
       /\ m <= Len(stack[k].inner)
       /\ stack[k].inner[m].mounted
       /\ \E n \in 1..Len(stack[k].inner[m].inner) :
            /\ stack[k].inner[m].inner[n].path # Undefined
            /\ stack[k].inner[m].inner[n].arity = 3

\* the closure of the Router n levels out of the one of this closure
RECURSIVE Outer(_, _)

Outer(closure, n) == IF n = 0 THEN closure ELSE Outer(closure.outer[1].h, n - 1)

\* the event loop runs the done() a mounted Router has queued on "router"
MountedRouterLeft ==
  /\ AtIdle
  /\ h.outer # <<>>
  /\ g.exit = "router"
  /\ tasks # <<>>
  /\ Head(tasks).fn = "done"

\* the mounts that lead to the Router of this closure: the index of the
\* mounting layer in each enclosing Router, from the outermost on
RECURSIVE Mounts(_)

Mounts(closure) ==
  IF closure.outer = <<>> THEN <<>>
  ELSE Append(Mounts(closure.outer[1].h), closure.outer[1].at)

DispatchesRunAsAlone ==
  /\ Alike(Described, Solo)
  /\ \A n \in 1..Len(conc.other) :
       Alike(conc.other[n].shared, conc.other[n].solo)

\* a handler runs behind a layer with a parameter while the other dispatch
\* rests, started but not over, and the layer holds the match of the other
\* request
HandlerRunsBehindLayerOfOther ==
  /\ ctl.kind = "handler"
  /\ Len(conc.other) # 0
  /\ conc.other[1].shared.cb.count = 0
  /\ conc.other[1].shared.g.ninv > 0
  /\ conc.other[1].shared.pending # {}
  /\ Len(stack[ctl.i].keys) # 0
  /\ stack[ctl.i].params # Solo.stack[ctl.i].params
  /\ stack[ctl.i].path # Solo.stack[ctl.i].path

====
